---- MODULE Spec2Model ----
(***************************************************************************)
(* State-machine model of main/main.go of lf-open-file-transfer: the       *)
(* session registry, the resumable chunked upload engine, the WebSocket    *)
(* hub and the last-leaver cleanup.                                        *)
(*                                                                         *)
(* Granularity: one action per region of a handler that is atomic with     *)
(* respect to the other goroutines, i.e. a region run under the session    *)
(* lock, or one operation on the temp directory.  Handlers that run        *)
(* several such regions carry a program counter (pc) and their locals      *)
(* (loc), so that other handlers interleave exactly where the code allows. *)
(*                                                                         *)
(* Paths and session IDs are sequences of tokens ("_" and ".json" are      *)
(* tokens), so that prefixes and suffixes are computed as the code does.   *)
(* Bytes are small naturals; 0 is the byte a truncate fills in.            *)
(***************************************************************************)
EXTENDS Integers, Sequences, FiniteSets, TLC

\* ------------------------------------------------------------------ bounds
\* largest fileSize a start request declares
MaxSize == 3
\* the largest int64 (2^63 - 1 in the source): integers are 4 bits wide here
Int64Max == 7
\* number of concurrent HTTP request handlers
NumReqs == 2
\* number of WebSocket connections
NumClients == 2
\* the counters of frames enqueued per client saturate here
MaxCount == 2

\* ------------------------------------------------- program constants (scaled)
\* const ChunkSize (5 MiB in the source, 2 bytes here)
ChunkSize == 2
\* capacity of Client.send (1024 in the source)
QueueCap == 2

\* ---------------------------------------------------------------- universes
SessionIDs == {<<"1">>}
\* a session ID that a session ID of SessionIDs is a proper prefix of
LongSessionIDs == {<<"1", "0">>}
\* every session ID a request or a connection may name
AnySessionIDs == SessionIDs \cup LongSessionIDs
FileNames == {<<"a">>}
\* the file names of two uploads of one session
UploadNames == FileNames \cup {<<"b">>}
Reqs == 1..NumReqs
ClientIDs == (NumReqs + 1)..(NumReqs + NumClients)
Texts == {"hi", "ho"}

VARIABLES
    sessions,        \* store.sessions: the IDs present in the registry
    sClients,        \* [s] Session.Clients
    textContent,     \* [s] Session.TextContent
    receivedFiles,   \* [s] Session.ReceivedFiles: name -> FileInfo
    receivingFiles,  \* [s] Session.ReceivingFiles: name -> ReceivingFile
    sessLocked,      \* [s] Session.mu held across a blocked step
    disk,            \* the temp directory: path -> file
    fileLocks,       \* fileLocks (sync.Map): path -> kind of mutex stored
    lockHeld,        \* the paths whose mutex of fileLocks is held
    pc,              \* [r] position of HTTP handler r
    loc,             \* [r] locals of HTTP handler r
    resp,            \* the response the last step wrote, if it wrote one, and its handler r
    cstate,          \* [c] life cycle of WebSocket connection c
    csess,           \* [c] the session connection c joined
    queue,           \* [c] Client.send: buffered frames
    closed,          \* [c] Client.send has been closed
    welcome,         \* [c] the connected frame is still to be sent
    crashed,         \* the process died (fatal error or unrecovered panic)
    fileFrames,      \* history: [c][f] "file" frames enqueued on c for f, by the
                     \* replay of its join and by broadcasts
    tornDown,        \* history: sessions whose last-leaver cleanup has run, and
                     \* for which no request or connection has arrived since
    replies,         \* history: the chunk POSTs answered 200, and those of them
                     \* answered completed=true
    everRegistered,  \* history: the <<s, f>> that were put in ReceivedFiles
    lost,            \* history: the temp directory as the last loss of the
                     \* in-memory state left it (empty: no loss so far)
    sweep            \* the paths the running cleanupOrphanedFiles has decided to
                     \* remove and has not yet come to

vars == <<sessions, sClients, textContent, receivedFiles, receivingFiles,
          sessLocked, disk, fileLocks, lockHeld, pc, loc, resp, cstate, csess,
          queue, closed, welcome, crashed, fileFrames, tornDown, replies,
          everRegistered, lost, sweep>>

sessVars == <<sessions, sClients, textContent, receivedFiles, receivingFiles, sessLocked>>
diskVars == <<disk, fileLocks, lockHeld>>
connVars == <<cstate, csess, queue, closed, welcome>>
histVars == <<fileFrames, tornDown, everRegistered>>

\* ------------------------------------------------------------ small helpers
Max(a, b) == IF a >= b THEN a ELSE b
Min(a, b) == IF a <= b THEN a ELSE b

\* Go's integer division truncates towards zero
GoDiv(a, b) == IF a >= 0 THEN a \div b ELSE -((-a) \div b)
\* the value an int64 expression has after it wrapped around
Wrap64(x) == ((x + Int64Max + 1) % (2 * (Int64Max + 1))) - (Int64Max + 1)

EmptyMap == [x \in {} |-> 0]
MapPut(m, k, v) == [x \in DOMAIN m \cup {k} |-> IF x = k THEN v ELSE m[x]]
MapDel(m, k) == [x \in DOMAIN m \ {k} |-> m[x]]

\* the elements of a set of naturals in ascending order
RECURSIVE Ascending(_)
Ascending(S) ==
    IF S = {} THEN <<>>
    ELSE LET m == CHOOSE x \in S : \A y \in S : x <= y
         IN <<m>> \o Ascending(S \ {m})

SeqToSet(q) == {q[i] : i \in DOMAIN q}

\* ------------------------------------------------------------------- paths
\* filepath.Join(TempDir, sessionID+"_"+fileName)
TempPath(s, f) == s \o <<"_">> \o f
\* filepath.Join(ConfigDir, sessionID+"_"+fileName+".json")
ConfigPath(s, f) == TempPath(s, f) \o <<".json">>

\* fileName[:len(sessionID)] == sessionID, for a longer fileName
HasSessionPrefix(p, s) == Len(p) > Len(s) /\ SubSeq(p, 1, Len(s)) = s

\* ---------------------------------------------------------- files on disk
NoChunks == [i \in {} |-> 0]
NoCfg == [fileName |-> <<>>, fileSize |-> 0, fileHash |-> <<>>, chunkSize |-> 0,
          totalChunks |-> 0, chunks |-> NoChunks, tempFilePath |-> <<>>]

DataFile(bytes) == [kind |-> "data", bytes |-> bytes, cfg |-> NoCfg]
JsonFile(cfg) == [kind |-> "json", bytes |-> <<>>, cfg |-> cfg]

\* File.Truncate(n): cut, or extend with zero bytes
Truncate(bytes, n) == [i \in 1..Max(n, 0) |-> IF i <= Len(bytes) THEN bytes[i] ELSE 0]

\* File.WriteAt(data, off): the file grows when the range ends past its end
WriteAt(bytes, data, off) ==
    [i \in 1..Max(Len(bytes), off + Len(data)) |->
        IF i > off /\ i <= off + Len(data) THEN data[i - off]
        ELSE IF i <= Len(bytes) THEN bytes[i] ELSE 0]

\* hex(md5(data)), hex(sha256(data)): injective, told apart by their length
MD5(bytes) == <<"md5">> \o bytes
SHA256(bytes) == <<"sha256">> \o bytes
NoHash == <<>>

\* ------------------------------------------------------- resumable manifest
\* the ResumableFileConfig startResumableUpload builds
NewConfig(s, f, size, hash) ==
    LET total == GoDiv(Wrap64(size + ChunkSize - 1), ChunkSize)
    IN [fileName |-> f, fileSize |-> size, fileHash |-> hash, chunkSize |-> ChunkSize,
        totalChunks |-> total,
        chunks |-> [i \in 0..(total - 1) |->
                      [size |-> IF i = total - 1 THEN size - i * ChunkSize ELSE ChunkSize,
                       hash |-> NoHash,
                       completed |-> FALSE,
                       offset |-> i * ChunkSize]],
        tempFilePath |-> TempPath(s, f)]

CompletedChunks(cfg) == {i \in DOMAIN cfg.chunks : cfg.chunks[i].completed}

\* float64(completed)/float64(total)*100, rounded down to a whole percent
calculateProgress(cfg) ==
    IF cfg.totalChunks = 0 THEN 0
    ELSE (Cardinality(CompletedChunks(cfg)) * 100) \div cfg.totalChunks

\* loadResumableConfig: os.ReadFile, then json.Unmarshal
CanLoad(d, p) == p \in DOMAIN d /\ d[p].kind = "json"

\* the indices 0..TotalChunks-1 that are absent from Chunks or not completed
MissingChunks(cfg) ==
    Ascending({i \in 0..(cfg.totalChunks - 1) :
                  ~(i \in DOMAIN cfg.chunks /\ cfg.chunks[i].completed)})

\* ---------------------------------------------------------------- responses
NoResp == [op |-> "none", r |-> 0, code |-> 0, s |-> <<>>, f |-> <<>>, idx |-> 0,
           len |-> 0, completed |-> FALSE, progress |-> 0, missing |-> <<>>,
           totalChunks |-> 0, size |-> 0, incomplete |-> 0]

Resp(op, code, s, f) == [NoResp EXCEPT !.op = op, !.code = code, !.s = s, !.f = f]

\* cur = 0: no client (the client IDs are positive); to: history, the clients in
\* the session when the handler registered the file
NoLoc == [s |-> <<>>, f |-> <<>>, idx |-> 0, data |-> <<>>, cfg |-> NoCfg,
          iter |-> {}, cur |-> 0, to |-> {}]

FileInfo(f, size, path) == [name |-> f, size |-> size, tempFilePath |-> path]

\* SessionStore.GetOrCreateSession: a missing session is created empty
GetOrCreateSession(s) == sessions' = sessions \cup {s}

\* the history of the chunk answers, after the answer rsp
Tally(rp, rsp) ==
    IF rsp.op = "chunk" /\ rsp.code = 200
    THEN [ok |-> Min(rp.ok + 1, MaxCount),
          done |-> IF rsp.completed THEN Min(rp.done + 1, MaxCount) ELSE rp.done]
    ELSE rp

\* a request or a connection for session s arrives
Arrives(s) == tornDown' = tornDown \ {s} /\ UNCHANGED everRegistered

\* a step that writes no response
Silent == resp' = NoResp /\ UNCHANGED <<replies, lost, sweep>>

\* handler r is at label l of its code, and the process has not ended
At(r, l) == ~crashed /\ pc[r] = l

\* connection c is in state st, and the process has not ended
Conn(c, st) == ~crashed /\ cstate[c] = st

Reply(r, rsp) ==
    /\ resp' = [rsp EXCEPT !.r = r]
    /\ replies' = Tally(replies, rsp)
    /\ UNCHANGED <<lost, sweep>>
    /\ pc' = [pc EXCEPT ![r] = "idle"]
    /\ loc' = [loc EXCEPT ![r] = NoLoc]

\* =================================================================== start
\* a faulty start: the look-up in ReceivedFiles is left out
StartCheck_NoLookup(r, s, f, size, hash) ==
    /\ At(r, "idle")
    /\ ~sessLocked[s]
    /\ IF size = 0
       THEN /\ Reply(r, Resp("start", 400, s, f))
            /\ UNCHANGED sessions
       ELSE /\ GetOrCreateSession(s)
            /\ pc' = [pc EXCEPT ![r] = "start_save"]
            /\ loc' = [loc EXCEPT ![r] =
                         [NoLoc EXCEPT !.s = s, !.f = f,
                                       !.cfg = NewConfig(s, f, size, hash)]]
            /\ Silent
    /\ Arrives(s)
    /\ UNCHANGED <<sClients, textContent, receivedFiles, receivingFiles, sessLocked>>
    /\ UNCHANGED <<diskVars, connVars, crashed, fileFrames>>

\* startResumableUpload, up to the check of ReceivedFiles
StartCheck(r, s, f, size, hash) ==
    /\ At(r, "idle")
    /\ ~sessLocked[s]
    /\ IF size = 0
       THEN \* binding:"required" rejects the zero value
            /\ Reply(r, Resp("start", 400, s, f))
            /\ UNCHANGED sessions
       ELSE /\ GetOrCreateSession(s)
            /\ IF f \in DOMAIN receivedFiles[s]
               THEN Reply(r, [Resp("start", 200, s, f) EXCEPT
                                 !.completed = TRUE, !.progress = 100,
                                 !.totalChunks = 1,
                                 !.size = receivedFiles[s][f].size])
               ELSE /\ pc' = [pc EXCEPT ![r] = "start_save"]
                    /\ loc' = [loc EXCEPT ![r] =
                                 [NoLoc EXCEPT !.s = s, !.f = f,
                                               !.cfg = NewConfig(s, f, size, hash)]]
                    /\ Silent
    /\ Arrives(s)
    /\ UNCHANGED <<sClients, textContent, receivedFiles, receivingFiles, sessLocked>>
    /\ UNCHANGED <<diskVars, connVars, crashed, fileFrames>>

\* saveResumableConfig(configPath, config)
StartSave(r, ok) ==
    /\ At(r, "start_save")
    /\ IF ok
       THEN /\ disk' = MapPut(disk, ConfigPath(loc[r].s, loc[r].f), JsonFile(loc[r].cfg))
            /\ pc' = [pc EXCEPT ![r] = "start_create"]
            /\ UNCHANGED <<loc>>
            /\ Silent
       ELSE /\ Reply(r, Resp("start", 500, loc[r].s, loc[r].f))
            /\ UNCHANGED disk
    /\ UNCHANGED <<sessVars, fileLocks, lockHeld, connVars, crashed, histVars>>

\* os.Create(config.TempFilePath): an existing file is truncated to length 0
StartCreate(r, ok) ==
    /\ At(r, "start_create")
    /\ IF ok
       THEN /\ disk' = MapPut(disk, loc[r].cfg.tempFilePath, DataFile(<<>>))
            /\ pc' = [pc EXCEPT ![r] = "start_truncate"]
            /\ UNCHANGED <<loc>>
            /\ Silent
       ELSE /\ Reply(r, Resp("start", 500, loc[r].s, loc[r].f))
            /\ UNCHANGED disk
    /\ UNCHANGED <<sessVars, fileLocks, lockHeld, connVars, crashed, histVars>>

\* tempFile.Truncate(req.FileSize) on the handle os.Create returned, then the reply
StartTruncate(r, ok) ==
    /\ At(r, "start_truncate")
    /\ LET p == loc[r].cfg.tempFilePath
           cfg == loc[r].cfg
       IN IF ok /\ cfg.fileSize >= 0
          THEN /\ disk' = IF p \in DOMAIN disk /\ disk[p].kind = "data"
                          THEN MapPut(disk, p, DataFile(Truncate(disk[p].bytes, cfg.fileSize)))
                          ELSE disk
               /\ IF cfg.totalChunks < 0
                  THEN \* make([]int, 0, totalChunks) panics; gin's Recovery answers 500
                       Reply(r, Resp("start", 500, loc[r].s, loc[r].f))
                  ELSE Reply(r, [Resp("start", 200, loc[r].s, loc[r].f) EXCEPT
                                   !.totalChunks = cfg.totalChunks,
                                   !.missing = Ascending(0..(cfg.totalChunks - 1))])
          ELSE /\ Reply(r, Resp("start", 500, loc[r].s, loc[r].f))
               /\ UNCHANGED disk
    /\ UNCHANGED <<sessVars, fileLocks, lockHeld, connVars, crashed, histVars>>

\* =================================================================== chunk
\* fileLocks.LoadOrStore(key, &sync.RWMutex{} or &sync.Mutex{})
LoadOrStore(locks, key, kind) == IF key \in DOMAIN locks THEN locks ELSE MapPut(locks, key, kind)

\* the answer to a chunk POST of n bytes for index idx of (s, f)
ChunkAnswer(s, f, idx, n, code) ==
    [Resp("chunk", code, s, f) EXCEPT !.idx = idx, !.len = n]

\* the ChunkUploadResponse of handler r
ChunkResp(r, code, cfg, completed) ==
    [ChunkAnswer(loc[r].s, loc[r].f, loc[r].idx, Len(loc[r].data), code) EXCEPT
        !.completed = completed, !.progress = calculateProgress(cfg)]

\* the error answer of handler r
ChunkError(r, code) == ChunkAnswer(loc[r].s, loc[r].f, loc[r].idx, Len(loc[r].data), code)

\* ends the chunk handler: the deferred configLock.Unlock(), then the reply
ChunkReply(r, rsp) ==
    /\ lockHeld' = lockHeld \ {ConfigPath(loc[r].s, loc[r].f)}
    /\ Reply(r, rsp)

\* the ChunkUploadResponse of a request not yet stored in loc
ChunkRespOf(s, f, idx, n, code, cfg) ==
    [ChunkAnswer(s, f, idx, n, code) EXCEPT !.progress = calculateProgress(cfg)]

\* a faulty lock: configLock.Lock() never waits
CanLock_Always(cp) == TRUE

\* configLock.Lock() returns: no other handler holds the mutex of the path
CanLock(cp) == cp \notin lockHeld

\* uploadChunk from configLock.Lock() to the size check: the manifest is loaded,
\* the chunk looked up, a completed chunk answered without writing
ChunkBegin(r, s, f, idx, data) ==
    LET cp == ConfigPath(s, f)
        locks == LoadOrStore(fileLocks, cp, "RWMutex")
    IN /\ At(r, "idle")
       /\ CanLock(cp)
       /\ fileLocks' = locks
       /\ IF locks[cp] # "RWMutex"
          THEN \* configLockValue.(*sync.RWMutex) panics; gin's Recovery answers 500
               /\ Reply(r, ChunkAnswer(s, f, idx, Len(data), 500))
               /\ UNCHANGED lockHeld
          ELSE IF ~CanLoad(disk, cp)
          THEN /\ Reply(r, ChunkAnswer(s, f, idx, Len(data), 404))
               /\ UNCHANGED lockHeld
          ELSE LET cfg == disk[cp].cfg
               IN IF idx \notin DOMAIN cfg.chunks
                  THEN /\ Reply(r, ChunkAnswer(s, f, idx, Len(data), 400))
                       /\ UNCHANGED lockHeld
                  ELSE IF cfg.chunks[idx].completed
                  THEN /\ Reply(r, ChunkRespOf(s, f, idx, Len(data), 200, cfg))
                       /\ UNCHANGED lockHeld
                  ELSE IF Len(data) # cfg.chunks[idx].size
                  THEN /\ Reply(r, ChunkAnswer(s, f, idx, Len(data), 400))
                       /\ UNCHANGED lockHeld
                  ELSE /\ lockHeld' = lockHeld \cup {cp}
                       /\ pc' = [pc EXCEPT ![r] = "chunk_write"]
                       /\ loc' = [loc EXCEPT ![r] =
                                    [NoLoc EXCEPT !.s = s, !.f = f, !.idx = idx,
                                                  !.data = data, !.cfg = cfg]]
                       /\ Silent
       /\ Arrives(s)
       /\ UNCHANGED <<sessVars, disk, connVars, crashed, fileFrames>>

\* writeChunkSafely(config.TempFilePath, chunkData, chunkInfo.Offset): under the
\* path's mutex, OpenFile(O_WRONLY) without O_CREATE, WriteAt, Sync
ChunkWrite(r, ok) ==
    LET p == loc[r].cfg.tempFilePath
        locks == LoadOrStore(fileLocks, p, "Mutex")
        off == loc[r].cfg.chunks[loc[r].idx].offset
    IN /\ At(r, "chunk_write")
       /\ fileLocks' = locks
       /\ IF locks[p] = "Mutex" /\ ok /\ p \in DOMAIN disk
          THEN /\ disk' = MapPut(disk, p, DataFile(WriteAt(disk[p].bytes, loc[r].data, off)))
               /\ pc' = [pc EXCEPT ![r] = "chunk_save"]
               /\ UNCHANGED <<loc, lockHeld>>
               /\ Silent
          ELSE \* lockValue.(*sync.Mutex) panics, or the open or the write fails
               /\ ChunkReply(r, ChunkError(r, 500))
               /\ UNCHANGED disk
       /\ UNCHANGED <<sessVars, connVars, crashed, histVars>>

\* the manifest as uploadChunk saves it: its own copy with this chunk completed
MarkCompleted(cfg, idx, data) ==
    [cfg EXCEPT !.chunks[idx].hash = MD5(data), !.chunks[idx].completed = TRUE]

\* allCompleted of uploadChunk: every entry of config.Chunks is completed
AllCompleted(cfg) == \A i \in DOMAIN cfg.chunks : cfg.chunks[i].completed

\* chunkInfo.Completed = true, saveResumableConfig, and the reply of a chunk that
\* does not complete the upload
ChunkSave(r, ok) ==
    LET cfg == MarkCompleted(loc[r].cfg, loc[r].idx, loc[r].data)
        cp == ConfigPath(loc[r].s, loc[r].f)
    IN /\ At(r, "chunk_save")
       /\ IF ~ok
          THEN /\ ChunkReply(r, ChunkError(r, 500))
               /\ UNCHANGED disk
          ELSE /\ disk' = MapPut(disk, cp, JsonFile(cfg))
               /\ IF AllCompleted(cfg)
                  THEN /\ pc' = [pc EXCEPT ![r] = "chunk_register"]
                       /\ loc' = [loc EXCEPT ![r].cfg = cfg]
                       /\ UNCHANGED lockHeld
                       /\ Silent
                  ELSE ChunkReply(r, ChunkResp(r, 200, cfg, FALSE))
       /\ UNCHANGED <<sessVars, fileLocks, connVars, crashed, histVars>>

\* what os.WriteFile leaves when its write fails after the open truncated the
\* file (a full disk): a manifest that json.Unmarshal rejects
TornFile == [kind |-> "torn", bytes |-> <<>>, cfg |-> NoCfg]

\* saveResumableConfig fails in uploadChunk after os.WriteFile truncated the
\* manifest: the handler answers 500
ChunkSaveTorn(r) ==
    /\ At(r, "chunk_save")
    /\ disk' = MapPut(disk, ConfigPath(loc[r].s, loc[r].f), TornFile)
    /\ ChunkReply(r, ChunkError(r, 500))
    /\ UNCHANGED <<sessVars, fileLocks, connVars, crashed, histVars>>

\* session.ReceivedFiles[fileName] = &FileInfo{...} under session.mu
ChunkRegister(r) ==
    LET s == loc[r].s
        f == loc[r].f
    IN /\ At(r, "chunk_register")
       /\ ~sessLocked[s]
       /\ GetOrCreateSession(s)
       /\ receivedFiles' = [receivedFiles EXCEPT ![s] =
              MapPut(@, f, FileInfo(f, loc[r].cfg.fileSize, loc[r].cfg.tempFilePath))]
       /\ everRegistered' = everRegistered \cup {<<s, f>>}
       /\ pc' = [pc EXCEPT ![r] = "chunk_rmcfg"]
       /\ loc' = [loc EXCEPT ![r].to = sClients[s]]
       /\ UNCHANGED <<sClients, textContent, receivingFiles, sessLocked>>
       /\ UNCHANGED <<diskVars, connVars, crashed, fileFrames, tornDown>>
       /\ Silent

\* os.Remove(configPath); a failure is only logged
ChunkRemoveConfig(r) ==
    /\ At(r, "chunk_rmcfg")
    /\ disk' = MapDel(disk, ConfigPath(loc[r].s, loc[r].f))
    /\ pc' = [pc EXCEPT ![r] = "chunk_bcast"]
    /\ UNCHANGED <<sessVars, fileLocks, lockHeld, loc, connVars, crashed, histVars>>
    /\ Silent

\* ================================================================ broadcast
Frame(type) == [type |-> type, content |-> "", name |-> <<>>, size |-> 0, n |-> 0]
TextFrame(content) == [Frame("text") EXCEPT !.content = content]
\* the "file" frame of the join replay and of the WebSocket paths (Data is set)
FileFrame(f, size) == [Frame("file") EXCEPT !.name = f, !.size = size, !.content = "data"]
\* the "file" frame uploadChunk broadcasts (Content is set, Data is not)
UploadedFrame(f, size) == [Frame("file") EXCEPT !.name = f, !.size = size, !.content = "uploaded"]
CountFrame(n) == [Frame("clients") EXCEPT !.n = n]
SystemFrame == [Frame("system") EXCEPT !.content = "connected"]

\* the history counter of "file" frames, after frame fr was enqueued on the
\* clients in to by a broadcast
CountFrames(ff, to, fr) ==
    IF fr.type # "file" THEN ff
    ELSE [c \in ClientIDs |->
            IF c \in to THEN [ff[c] EXCEPT ![fr.name].live = Min(@ + 1, MaxCount)] ELSE ff[c]]

\* the "file" frames enqueued on c for f so far
FramesFor(c, f) == fileFrames[c][f].replay + fileFrames[c][f].live

\* a faulty broadcast: a full queue is not noticed
Evicted_Nobody(cl, q) == {}

\* broadcastMessage run to its end under session.mu, from the client set cl and the
\* queues q: each client gets the frame, or is closed and deleted when its queue is full
Evicted(cl, q) == {c \in cl : Len(q[c]) >= QueueCap}
\* a faulty broadcast: no frame is enqueued
BcastQueue_NotSent(cl, q, fr) == q

BcastQueue(cl, q, fr) ==
    [c \in ClientIDs |-> IF c \in cl \ Evicted(cl, q) THEN Append(q[c], fr) ELSE q[c]]
BcastClosed(cl, q) == [c \in ClientIDs |-> closed[c] \/ c \in Evicted(cl, q)]

\* a client whose channel uploadChunk's broadcast has closed and not yet deleted:
\* broadcastMessage sends on the closed channel and panics
SendsOnClosed(cl) == \E c \in cl : closed[c]

\* uploadChunk ranges over session.Clients without holding session.mu
Iterating(s) == {r \in Reqs : pc[r] \in {"chunk_iter", "chunk_evict"} /\ loc[r].s = s}

\* a write of session.Clients while another goroutine ranges over it may end the
\* process ("fatal error: concurrent map iteration and map write")
MapWriteOutcomes(s, r) == IF Iterating(s) \ {r} # {} THEN BOOLEAN ELSE {FALSE}

\* a faulty uploadChunk: the broadcast is left out
ChunkBroadcastBegin_Skip(r) ==
    /\ At(r, "chunk_bcast")
    /\ pc' = [pc EXCEPT ![r] = "chunk_reply"]
    /\ UNCHANGED <<sessVars, diskVars, loc, connVars, crashed, histVars>>
    /\ Silent

\* broadcastMessage(message, session) of uploadChunk, up to the range statement
ChunkBroadcastBegin(r) ==
    /\ At(r, "chunk_bcast")
    /\ IF sClients[loc[r].s] = {}
       THEN pc' = [pc EXCEPT ![r] = "chunk_reply"]
       ELSE pc' = [pc EXCEPT ![r] = "chunk_iter"]
    /\ loc' = [loc EXCEPT ![r].iter = sClients[loc[r].s]]
    /\ UNCHANGED <<sessVars, diskVars, connVars, crashed, histVars>>
    /\ Silent

\* one round of the range: a client still in the map gets the frame or, its queue
\* full, has its channel closed; an entry deleted meanwhile is not produced
ChunkBroadcastStep(r, c) ==
    LET s == loc[r].s
        fr == UploadedFrame(loc[r].f, loc[r].cfg.fileSize)
        live == loc[r].iter \cap sClients[s]
    IN /\ At(r, "chunk_iter")
       /\ IF live = {}
          THEN /\ c \in ClientIDs
               /\ pc' = [pc EXCEPT ![r] = "chunk_reply"]
               /\ loc' = [loc EXCEPT ![r].iter = {}]
               /\ UNCHANGED <<queue, closed, fileFrames, lockHeld>>
               /\ Silent
          ELSE /\ c \in live
               /\ IF closed[c]
                  THEN \* send on a closed channel: panic, recovered by gin (500)
                       /\ ChunkReply(r, ChunkError(r, 500))
                       /\ UNCHANGED <<queue, closed, fileFrames>>
                  ELSE IF Len(queue[c]) < QueueCap
                  THEN /\ queue' = [queue EXCEPT ![c] = Append(@, fr)]
                       /\ fileFrames' = CountFrames(fileFrames, {c}, fr)
                       /\ loc' = [loc EXCEPT ![r].iter = live \ {c}]
                       /\ pc' = [pc EXCEPT ![r] = IF live = {c} THEN "chunk_reply" ELSE "chunk_iter"]
                       /\ UNCHANGED <<closed, lockHeld>>
                       /\ Silent
                  ELSE /\ closed' = [closed EXCEPT ![c] = TRUE]
                       /\ loc' = [loc EXCEPT ![r].iter = live \ {c}, ![r].cur = c]
                       /\ pc' = [pc EXCEPT ![r] = "chunk_evict"]
                       /\ UNCHANGED <<queue, fileFrames, lockHeld>>
                       /\ Silent
       /\ UNCHANGED <<sessVars, disk, fileLocks, cstate, csess, welcome, crashed, tornDown, everRegistered>>

\* delete(session.Clients, client) after close(client.send)
ChunkEvict(r) ==
    LET s == loc[r].s
        c == loc[r].cur
    IN /\ At(r, "chunk_evict")
       /\ sClients' = [sClients EXCEPT ![s] = @ \ {c}]
       /\ loc' = [loc EXCEPT ![r].cur = 0]
       /\ pc' = [pc EXCEPT ![r] = "chunk_iter"]
       /\ \E cr \in MapWriteOutcomes(s, r) : crashed' = cr
       /\ UNCHANGED <<sessions, textContent, receivedFiles, receivingFiles, sessLocked>>
       /\ UNCHANGED <<diskVars, connVars, histVars>>
       /\ Silent

\* c.JSON(http.StatusOK, response) of the chunk that completed the upload
ChunkRespond(r) ==
    /\ At(r, "chunk_reply")
    /\ ChunkReply(r, ChunkResp(r, 200, loc[r].cfg, TRUE))
    /\ UNCHANGED <<sessVars, disk, fileLocks, connVars, crashed, histVars>>

\* ================================================================== status
\* getUploadStatus: one read of the manifest
Status(r, s, f) ==
    LET cp == ConfigPath(s, f)
    IN /\ At(r, "idle")
       /\ IF ~CanLoad(disk, cp)
          THEN Reply(r, Resp("status", 404, s, f))
          ELSE LET cfg == disk[cp].cfg
                   missing == MissingChunks(cfg)
               IN Reply(r, [Resp("status", 200, s, f) EXCEPT
                              !.totalChunks = cfg.totalChunks,
                              !.missing = missing,
                              !.progress = calculateProgress(cfg),
                              !.size = cfg.fileSize,
                              !.completed = (cfg.totalChunks - Len(missing) = cfg.totalChunks)])
       /\ UNCHANGED <<sessVars, diskVars, connVars, crashed, histVars>>

\* ================================================================ complete
\* completeUpload: loadResumableConfig(configPath)
CompleteLoad(r, s, f) ==
    LET cp == ConfigPath(s, f)
    IN /\ At(r, "idle")
       /\ IF ~CanLoad(disk, cp)
          THEN Reply(r, Resp("complete", 404, s, f))
          ELSE /\ pc' = [pc EXCEPT ![r] = "complete_check"]
               /\ loc' = [loc EXCEPT ![r] = [NoLoc EXCEPT !.s = s, !.f = f, !.cfg = disk[cp].cfg]]
               /\ Silent
       /\ Arrives(s)
       /\ UNCHANGED <<sessVars, diskVars, connVars, crashed, fileFrames>>

IncompleteChunks(cfg) == Cardinality(DOMAIN cfg.chunks \ CompletedChunks(cfg))

\* the look-up in ReceivedFiles under the read lock, then the count of the
\* chunks of the loaded manifest that are not completed
CompleteCheck(r) ==
    LET s == loc[r].s
        f == loc[r].f
        cfg == loc[r].cfg
    IN /\ At(r, "complete_check")
       /\ ~sessLocked[s]
       /\ GetOrCreateSession(s)
       /\ IF f \in DOMAIN receivedFiles[s]
          THEN Reply(r, [Resp("complete", 200, s, f) EXCEPT !.size = receivedFiles[s][f].size])
          ELSE IF IncompleteChunks(cfg) > 0
          THEN Reply(r, [Resp("complete", 400, s, f) EXCEPT !.incomplete = IncompleteChunks(cfg)])
          ELSE /\ pc' = [pc EXCEPT ![r] = IF cfg.fileHash # NoHash THEN "complete_verify"
                                          ELSE "complete_register"]
               /\ UNCHANGED <<loc>>
               /\ Silent
       /\ UNCHANGED <<sClients, textContent, receivedFiles, receivingFiles, sessLocked>>
       /\ UNCHANGED <<diskVars, connVars, crashed, histVars>>

\* verifyFileHash(filePath, expectedHash): nil when the digest of the file, MD5 for
\* a hash of length 32 and SHA-256 for one of length 64, equals expectedHash
verifyFileHash_Unchecked(d, p, expected) == TRUE

verifyFileHash(d, p, expected) ==
    /\ p \in DOMAIN d
    /\ d[p].kind = "data"
    /\ Len(expected) > 0
    /\ \/ expected[1] = "md5" /\ MD5(d[p].bytes) = expected
       \/ expected[1] = "sha256" /\ SHA256(d[p].bytes) = expected

CompleteVerify(r) ==
    /\ At(r, "complete_verify")
    /\ IF verifyFileHash(disk, loc[r].cfg.tempFilePath, loc[r].cfg.fileHash)
       THEN /\ pc' = [pc EXCEPT ![r] = "complete_register"]
            /\ UNCHANGED <<loc>>
            /\ Silent
       ELSE Reply(r, Resp("complete", 400, loc[r].s, loc[r].f))
    /\ UNCHANGED <<sessVars, diskVars, connVars, crashed, histVars>>

\* session.ReceivedFiles[fileName] = &FileInfo{...} under session.mu, then the reply
CompleteRegister(r) ==
    LET s == loc[r].s
        f == loc[r].f
        cfg == loc[r].cfg
    IN /\ At(r, "complete_register")
       /\ ~sessLocked[s]
       /\ receivedFiles' = [receivedFiles EXCEPT ![s] =
              MapPut(@, f, FileInfo(f, cfg.fileSize, cfg.tempFilePath))]
       /\ everRegistered' = everRegistered \cup {<<s, f>>}
       /\ Reply(r, [Resp("complete", 200, s, f) EXCEPT !.size = cfg.fileSize])
       /\ UNCHANGED <<sessions, sClients, textContent, receivingFiles, sessLocked>>
       /\ UNCHANGED <<diskVars, connVars, crashed, fileFrames, tornDown>>

\* =============================================================== WebSocket
\* the orders in which a range over a map may produce its keys
Orders(S) == {q \in [1..Cardinality(S) -> S] : SeqToSet(q) = S}

\* the frames handleWebSocket replays to a new client: the text snapshot when it
\* is not empty, then one "file" frame per entry of ReceivedFiles.  Session.FileInfo
\* is never assigned, so its branch sends nothing.
Replay(s, order) ==
    (IF textContent[s] # "" THEN <<TextFrame(textContent[s])>> ELSE <<>>)
    \o [i \in 1..Len(order) |-> FileFrame(order[i], receivedFiles[s][order[i]].size)]

\* the history counter after the replay frames q were enqueued on c
RECURSIVE CountReplay(_, _, _)
CountReplay(ff, c, q) ==
    IF q = <<>> THEN ff
    ELSE CountReplay(IF Head(q).type # "file" THEN ff
                     ELSE [ff EXCEPT ![c][Head(q).name].replay = Min(@ + 1, MaxCount)],
                     c, Tail(q))

\* the handlers whose broadcast of a completed upload may reach a client of s
\* that has just been put in session.Clients: broadcastMessage takes no lock in
\* uploadChunk, so a range under way may produce the new entry, and a broadcast
\* that is about to test len(session.Clients) finds the new client alone
MayReach(s) ==
    {r \in Reqs : /\ loc[r].s = s
                  /\ \/ pc[r] = "chunk_iter"
                     \/ pc[r] = "chunk_bcast" /\ sClients[s] = {}}

\* the frames the handlers of early send to the new client
EarlyFrames(early) ==
    IF early = {} THEN <<>>
    ELSE LET r == CHOOSE r \in early : TRUE
         IN <<UploadedFrame(loc[r].f, loc[r].cfg.fileSize)>>

\* handleWebSocket from session.mu.Lock() to session.mu.Unlock(): the client is
\* added, the replay is sent with blocking sends on the new channel (nothing
\* drains it yet), the participant count is broadcast.  A replay longer than
\* the channel's capacity blocks the handler with the lock held.  A range of
\* uploadChunk that is under way produces the new entry later (seen), skips it,
\* or (early) sends its frame to the new client between the registration of the
\* client and the first send of the replay.
JoinWith(c, s, order, seen, early) ==
    LET sent == EarlyFrames(early) \o Replay(s, order)
        taken == SubSeq(sent, 1, Min(Len(sent), QueueCap))
        replayed == IF early = {} THEN taken ELSE Tail(taken)
        ff == IF early = {} THEN CountReplay(fileFrames, c, replayed)
              ELSE CountFrames(CountReplay(fileFrames, c, replayed), {c}, Head(sent))
        cl == sClients[s] \cup {c}
        q == [queue EXCEPT ![c] = sent]
        fr == CountFrame(Cardinality(cl))
    IN /\ Conn(c, "new")
       /\ ~sessLocked[s]
       /\ order \in Orders(DOMAIN receivedFiles[s])
       /\ seen \subseteq Iterating(s)
       /\ early \subseteq MayReach(s) \ seen
       /\ Cardinality(early) <= 1
       /\ GetOrCreateSession(s)
       /\ csess' = [csess EXCEPT ![c] = s]
       /\ fileFrames' = ff
       /\ IF Len(sent) > QueueCap
          THEN /\ sClients' = [sClients EXCEPT ![s] = cl]
               /\ queue' = [queue EXCEPT ![c] = taken]
               /\ sessLocked' = [sessLocked EXCEPT ![s] = TRUE]
               /\ cstate' = [cstate EXCEPT ![c] = "blocked"]
               /\ UNCHANGED <<closed, welcome>>
          ELSE IF SendsOnClosed(cl)
          THEN \* panic in the handler, recovered by gin: session.mu stays locked
               /\ sClients' = [sClients EXCEPT ![s] = cl]
               /\ queue' = q
               /\ sessLocked' = [sessLocked EXCEPT ![s] = TRUE]
               /\ cstate' = [cstate EXCEPT ![c] = "blocked"]
               /\ UNCHANGED <<closed, welcome>>
          ELSE /\ sClients' = [sClients EXCEPT ![s] = cl \ Evicted(cl, q)]
               /\ queue' = BcastQueue(cl, q, fr)
               /\ closed' = BcastClosed(cl, q)
               /\ cstate' = [cstate EXCEPT ![c] = "open"]
               /\ welcome' = [welcome EXCEPT ![c] = TRUE]
               /\ UNCHANGED sessLocked
       /\ \E cr \in MapWriteOutcomes(s, 0) : crashed' = cr
       /\ loc' = [r \in Reqs |->
                    IF r \in seen THEN [loc[r] EXCEPT !.iter = @ \cup {c}] ELSE loc[r]]
       /\ pc' = [r \in Reqs |->
                   IF r \in early /\ pc[r] = "chunk_bcast" THEN "chunk_reply" ELSE pc[r]]
       /\ Arrives(s)
       /\ UNCHANGED <<textContent, receivedFiles, receivingFiles>>
       /\ UNCHANGED diskVars
       /\ Silent

\* a join that no broadcast of uploadChunk reaches before its replay
Join(c, s, order, seen) == JoinWith(c, s, order, seen, {})

\* client.send <- data of the connected frame, after the lock was released and
\* the pumps were started: it waits for room, and panics on a closed channel
Welcome(c) ==
    /\ ~crashed
    /\ welcome[c]
    /\ welcome' = [welcome EXCEPT ![c] = FALSE]
    /\ IF closed[c]
       THEN UNCHANGED queue
       ELSE /\ Len(queue[c]) < QueueCap
            /\ queue' = [queue EXCEPT ![c] = Append(@, SystemFrame)]
    /\ UNCHANGED <<sessVars, diskVars, pc, loc, cstate, csess, closed, crashed, histVars>>
    /\ Silent

\* writePump: one frame leaves the channel for the socket
WritePump(c) ==
    /\ Conn(c, "open")
    /\ queue[c] # <<>>
    /\ queue' = [queue EXCEPT ![c] = Tail(@)]
    /\ UNCHANGED <<sessVars, diskVars, pc, loc, cstate, csess, closed, welcome, crashed, histVars>>
    /\ Silent

\* broadcastMessage run under session.mu by a goroutine of a connection (readPump
\* and its deferred function): a panic there is not recovered and ends the process
LockedBroadcast(s, fr) ==
    LET cl == sClients[s]
    IN IF SendsOnClosed(cl)
       THEN /\ crashed' = TRUE
            /\ UNCHANGED <<sClients, queue, closed, fileFrames>>
       ELSE /\ sClients' = [sClients EXCEPT ![s] = cl \ Evicted(cl, queue)]
            /\ queue' = BcastQueue(cl, queue, fr)
            /\ closed' = BcastClosed(cl, queue)
            /\ fileFrames' = CountFrames(fileFrames, cl \ Evicted(cl, queue), fr)
            /\ \E cr \in (IF Evicted(cl, queue) # {} THEN MapWriteOutcomes(s, 0) ELSE {FALSE}) :
                  crashed' = cr

\* readPump, a "text" message: TextContent is replaced, the frame is broadcast
ReadText(c, content) ==
    LET s == csess[c]
    IN /\ Conn(c, "open")
       /\ ~sessLocked[s]
       /\ GetOrCreateSession(s)
       /\ textContent' = [textContent EXCEPT ![s] = content]
       /\ LockedBroadcast(s, TextFrame(content))
       /\ UNCHANGED <<receivedFiles, receivingFiles, sessLocked>>
       /\ UNCHANGED <<diskVars, pc, loc, cstate, csess, welcome, tornDown, everRegistered>>
       /\ Silent

\* readPump, a "file" message: os.Create, Write, then the entry of ReceivedFiles
\* with the declared size and the broadcast.  On a failed create or write the
\* handler unlocks session.mu and breaks out of the switch only, so that the
\* unlock after the switch runs on an unlocked mutex: a fatal error.
ReadFile(c, f, size, data, ok) ==
    LET s == csess[c]
        p == TempPath(s, f)
    IN /\ Conn(c, "open")
       /\ ~sessLocked[s]
       /\ GetOrCreateSession(s)
       /\ IF ~ok
          THEN /\ crashed' = TRUE
               /\ UNCHANGED <<sClients, queue, closed, fileFrames, receivedFiles, disk>>
               /\ UNCHANGED everRegistered
          ELSE /\ disk' = MapPut(disk, p, DataFile(data))
               /\ receivedFiles' = [receivedFiles EXCEPT ![s] = MapPut(@, f, FileInfo(f, size, p))]
               /\ everRegistered' = everRegistered \cup {<<s, f>>}
               /\ LockedBroadcast(s, FileFrame(f, size))
       /\ UNCHANGED <<textContent, receivingFiles, sessLocked>>
       /\ UNCHANGED <<fileLocks, lockHeld, pc, loc, cstate, csess, welcome, tornDown>>
       /\ Silent

\* the ReceivingFile the first "file_chunk" message of a file creates
NewReceivingFile(f, size, total) ==
    [name |-> f, size |-> size, totalChunks |-> total, receivedChunks |-> 0,
     chunks |-> NoChunks]

\* allChunksReceived && ReceivedChunks > 0: the counter equals TotalChunks or,
\* when that is zero, the number of chunks computed from the size
AllChunksReceived(rf) ==
    /\ rf.receivedChunks > 0
    /\ rf.receivedChunks = (IF rf.totalChunks > 0 THEN rf.totalChunks
                            ELSE GoDiv(rf.size + ChunkSize - 1, ChunkSize))

\* readPump, a "file_chunk" message: the first message of a name creates and
\* pre-sizes the backing file; every message stores its data under its index,
\* increments ReceivedChunks and then writes at index * ChunkSize through the
\* open handle; when the counter reaches the expected number the file is put in
\* ReceivedFiles, broadcast, and its ReceivingFile is deleted.  A failed create,
\* pre-sizing or write unlocks session.mu and breaks out of the switch only, so
\* that the unlock after the switch runs on an unlocked mutex: a fatal error.
ReadFileChunk(c, f, size, total, idx, data, ok) ==
    LET s == csess[c]
        p == TempPath(s, f)
        exists == f \in DOMAIN receivingFiles[s]
        old == IF exists
               THEN [receivingFiles[s][f] EXCEPT
                       !.totalChunks = IF @ = 0 /\ total > 0 THEN total ELSE @]
               ELSE NewReceivingFile(f, size, total)
        rf == [old EXCEPT !.chunks = MapPut(@, idx, data), !.receivedChunks = @ + 1]
        d == IF exists THEN disk ELSE MapPut(disk, p, DataFile(Truncate(<<>>, size)))
    IN /\ Conn(c, "open")
       /\ ~sessLocked[s]
       /\ GetOrCreateSession(s)
       /\ IF ~ok
          THEN /\ crashed' = TRUE
               /\ UNCHANGED <<sClients, queue, closed, fileFrames, receivedFiles,
                              receivingFiles, disk>>
               /\ UNCHANGED everRegistered
          ELSE /\ disk' = IF p \in DOMAIN d
                          THEN MapPut(d, p, DataFile(WriteAt(d[p].bytes, data, idx * ChunkSize)))
                          ELSE d
               /\ IF AllChunksReceived(rf)
                  THEN /\ receivedFiles' =
                            [receivedFiles EXCEPT ![s] = MapPut(@, f, FileInfo(f, rf.size, p))]
                       /\ everRegistered' = everRegistered \cup {<<s, f>>}
                       /\ LockedBroadcast(s, FileFrame(f, rf.size))
                       /\ receivingFiles' = [receivingFiles EXCEPT ![s] = MapDel(@, f)]
                  ELSE /\ receivingFiles' = [receivingFiles EXCEPT ![s] = MapPut(@, f, rf)]
                       /\ UNCHANGED <<sClients, queue, closed, fileFrames, receivedFiles,
                                      crashed>>
                       /\ UNCHANGED everRegistered
       /\ UNCHANGED <<textContent, sessLocked>>
       /\ UNCHANGED <<fileLocks, lockHeld, pc, loc, cstate, csess, welcome, tornDown>>
       /\ Silent

\* ---------------------------------------------------------------- teardown
\* the files RemoveClient unlinks when the client set became empty: the temp files
\* of ReceivingFiles and ReceivedFiles, then (cleanupResumableConfigs) every file
\* of the temp directory whose name is longer than sessionID and begins with it
TeardownRemoves(s) ==
    {TempPath(s, f) : f \in DOMAIN receivingFiles[s]}
    \cup {receivedFiles[s][f].tempFilePath : f \in DOMAIN receivedFiles[s]}
    \cup {p \in DOMAIN disk : HasSessionPrefix(p, s)}

\* the deferred function of readPump, first half: store.RemoveClient(c, sessionID)
\* under store.mu and session.mu
RemoveClient(c) ==
    LET s == csess[c]
    IN /\ Conn(c, "open")
       /\ ~sessLocked[s]
       /\ cstate' = [cstate EXCEPT ![c] = "removed"]
       /\ IF c \notin sClients[s]
          THEN UNCHANGED <<sClients, receivedFiles, receivingFiles, disk, crashed, tornDown>>
          ELSE /\ sClients' = [sClients EXCEPT ![s] = @ \ {c}]
               /\ \E cr \in MapWriteOutcomes(s, 0) : crashed' = cr
               /\ IF sClients[s] = {c}
                  THEN /\ receivingFiles' = [receivingFiles EXCEPT ![s] = EmptyMap]
                       /\ receivedFiles' = [receivedFiles EXCEPT ![s] = EmptyMap]
                       /\ disk' = [p \in DOMAIN disk \ TeardownRemoves(s) |-> disk[p]]
                       /\ tornDown' = tornDown \cup {s}
                  ELSE UNCHANGED <<receivedFiles, receivingFiles, disk, tornDown>>
       /\ UNCHANGED <<sessions, textContent, sessLocked>>
       /\ UNCHANGED <<fileLocks, lockHeld, pc, loc, csess, queue, closed, welcome, fileFrames>>
       /\ UNCHANGED everRegistered
       /\ Silent

\* the deferred function of readPump, second half: the participant count is
\* broadcast under session.mu
CountBroadcast(c) ==
    LET s == csess[c]
    IN /\ Conn(c, "removed")
       /\ ~sessLocked[s]
       /\ GetOrCreateSession(s)
       /\ cstate' = [cstate EXCEPT ![c] = "gone"]
       /\ LockedBroadcast(s, CountFrame(Cardinality(sClients[s])))
       /\ UNCHANGED <<textContent, receivedFiles, receivingFiles, sessLocked>>
       /\ UNCHANGED <<diskVars, pc, loc, csess, welcome, tornDown, everRegistered>>
       /\ Silent

\* ================================================================== janitor
\* extractSessionIDFromFileName: the part of the name before the first "_" when
\* it has the shape of a UUID, as every ID of SessionIDs has (createSession
\* makes them with generateUUID); "" otherwise
extractSessionIDFromFileName(p) ==
    IF \E i \in 2..Len(p) : p[i] = "_" /\ SubSeq(p, 1, i - 1) \in SessionIDs
    THEN SubSeq(p, 1, (CHOOSE i \in 2..Len(p) : p[i] = "_" /\ SubSeq(p, 1, i - 1) \in SessionIDs) - 1)
    ELSE <<>>

\* the sweep of every 5 minutes: a file named after a session that is not in
\* the registry is removed
cleanupOrphanedFiles ==
    LET orphans == {p \in DOMAIN disk :
                       /\ extractSessionIDFromFileName(p) # <<>>
                       /\ extractSessionIDFromFileName(p) \notin sessions}
    IN /\ ~crashed
       /\ orphans # {}
       /\ disk' = [p \in DOMAIN disk \ orphans |-> disk[p]]
       /\ UNCHANGED <<sessVars, fileLocks, lockHeld, pc, loc, connVars, crashed, histVars>>
       /\ Silent

\* cleanupOrphanedFiles up to its loop: os.ReadDir lists the directory and the
\* IDs of store.sessions are copied under the registry's read lock; the files
\* the loop will remove are decided by these two copies
SweepBegin ==
    LET orphans == {p \in DOMAIN disk :
                       /\ extractSessionIDFromFileName(p) # <<>>
                       /\ extractSessionIDFromFileName(p) \notin sessions}
    IN /\ ~crashed
       /\ sweep = {}
       /\ orphans # {}
       /\ sweep' = orphans
       /\ resp' = NoResp
       /\ UNCHANGED <<sessVars, diskVars, pc, loc, connVars, crashed, histVars, replies, lost>>

\* one round of the loop of cleanupOrphanedFiles: os.Remove(filePath), which
\* fails when the file is gone
SweepRemove(p) ==
    /\ ~crashed
    /\ p \in sweep
    /\ sweep' = sweep \ {p}
    /\ disk' = [q \in DOMAIN disk \ {p} |-> disk[q]]
    /\ resp' = NoResp
    /\ UNCHANGED <<sessVars, fileLocks, lockHeld, pc, loc, connVars, crashed, histVars, replies, lost>>

\* the sweep of every 24 hours: a file not modified for 24 hours is removed,
\* whatever session it belongs to.  Time is not modelled: the sweep finds every
\* file old when no handler is at work, as after a day without a request.
cleanupOldFiles ==
    /\ ~crashed
    /\ disk # EmptyMap
    /\ \A r \in Reqs : pc[r] = "idle"
    /\ disk' = EmptyMap
    /\ UNCHANGED <<sessVars, fileLocks, lockHeld, pc, loc, connVars, crashed, histVars>>
    /\ Silent

\* the process ends and main starts again: the registry, the locks, the handlers
\* and the connections are gone, the temp directory is as it was
Restart ==
    /\ lost = EmptyMap
    /\ disk # EmptyMap
    /\ sessions' = {}
    /\ sClients' = [s \in AnySessionIDs |-> {}]
    /\ textContent' = [s \in AnySessionIDs |-> ""]
    /\ receivedFiles' = [s \in AnySessionIDs |-> EmptyMap]
    /\ receivingFiles' = [s \in AnySessionIDs |-> EmptyMap]
    /\ sessLocked' = [s \in AnySessionIDs |-> FALSE]
    /\ fileLocks' = EmptyMap
    /\ lockHeld' = {}
    /\ pc' = [r \in Reqs |-> "idle"]
    /\ loc' = [r \in Reqs |-> NoLoc]
    /\ resp' = NoResp
    /\ cstate' = [c \in ClientIDs |-> IF cstate[c] = "new" THEN "new" ELSE "gone"]
    /\ queue' = [c \in ClientIDs |-> <<>>]
    /\ closed' = [c \in ClientIDs |-> FALSE]
    /\ welcome' = [c \in ClientIDs |-> FALSE]
    /\ crashed' = FALSE
    /\ lost' = disk
    /\ sweep' = {}
    /\ UNCHANGED <<disk, csess, fileFrames, tornDown, everRegistered, replies>>

\* ==================================================================== Init
Init ==
    /\ sessions = {}
    /\ sClients = [s \in AnySessionIDs |-> {}]
    /\ textContent = [s \in AnySessionIDs |-> ""]
    /\ receivedFiles = [s \in AnySessionIDs |-> EmptyMap]
    /\ receivingFiles = [s \in AnySessionIDs |-> EmptyMap]
    /\ sessLocked = [s \in AnySessionIDs |-> FALSE]
    /\ disk = EmptyMap
    /\ fileLocks = EmptyMap
    /\ lockHeld = {}
    /\ pc = [r \in Reqs |-> "idle"]
    /\ loc = [r \in Reqs |-> NoLoc]
    /\ resp = NoResp
    /\ cstate = [c \in ClientIDs |-> "new"]
    /\ csess = [c \in ClientIDs |-> <<>>]
    /\ queue = [c \in ClientIDs |-> <<>>]
    /\ closed = [c \in ClientIDs |-> FALSE]
    /\ welcome = [c \in ClientIDs |-> FALSE]
    /\ crashed = FALSE
    /\ fileFrames = [c \in ClientIDs |-> [f \in UploadNames |-> [replay |-> 0, live |-> 0]]]
    /\ tornDown = {}
    /\ everRegistered = {}
    /\ replies = [ok |-> 0, done |-> 0]
    /\ lost = EmptyMap
    /\ sweep = {}

\* the bytes a request carries: n bytes of value 1
Bytes(n) == [i \in 1..n |-> 1]

\* ------------------------------------------------- groups of the actions
\* handler r serves a start request of a size of SZ and a hash of HS
StartOps(r, SZ, HS) ==
    \/ \E s \in SessionIDs, f \in FileNames, size \in SZ, hash \in HS :
          StartCheck(r, s, f, size, hash)
    \/ StartSave(r, TRUE)
    \/ StartCreate(r, TRUE)
    \/ StartTruncate(r, TRUE)

\* handler r serves a chunk POST of an index of IX
ChunkOps(r, IX) ==
    \/ \E s \in SessionIDs, f \in FileNames, idx \in IX, n \in 1..ChunkSize :
          ChunkBegin(r, s, f, idx, Bytes(n))
    \/ ChunkWrite(r, TRUE)
    \/ ChunkSave(r, TRUE)
    \/ ChunkRegister(r)
    \/ ChunkRemoveConfig(r)
    \/ ChunkBroadcastBegin(r)
    \/ ChunkRespond(r)

\* the rounds of uploadChunk's broadcast, when the session can have clients
ChunkBroadcastOps(r) ==
    \/ \E c \in ClientIDs : ChunkBroadcastStep(r, c)
    \/ ChunkEvict(r)

StatusOps(r) == \E s \in SessionIDs, f \in FileNames : Status(r, s, f)

CompleteOps(r) ==
    \/ \E s \in SessionIDs, f \in FileNames : CompleteLoad(r, s, f)
    \/ CompleteCheck(r)
    \/ CompleteRegister(r)

\* connection c joins, is welcomed, is drained, and leaves
ConnOps(c) ==
    \/ \E s \in SessionIDs, order \in Orders(FileNames) \cup {<<>>}, seen \in SUBSET Reqs :
          Join(c, s, order, seen)
    \/ Welcome(c)
    \/ WritePump(c)
    \/ RemoveClient(c)
    \/ CountBroadcast(c)

\* ------------------------------------------------------- specifications
\* two HTTP handlers serve any requests for one upload; no WebSocket connection
NextHttp ==
    \E r \in Reqs :
       \/ StartOps(r, {0, MaxSize}, {NoHash})
       \/ ChunkOps(r, 0..1)
       \/ StatusOps(r)
       \/ CompleteOps(r)
SpecHttp == Init /\ [][NextHttp]_vars

\* one HTTP handler serves any requests while one connection joins, uploads
\* a file over the WebSocket and leaves.  With a single handler complete never
\* registers: the chunk that completes the manifest registers the file itself.
NextA ==
    \/ \E r \in {1} :
          \/ StartOps(r, {MaxSize}, {NoHash})
          \/ ChunkOps(r, 0..1)
          \/ ChunkBroadcastOps(r)
          \/ StatusOps(r)
          \/ \E s \in SessionIDs, f \in FileNames : CompleteLoad(r, s, f)
          \/ CompleteCheck(r)
    \/ \E c \in {NumReqs + 1} :
          \/ ConnOps(c)
          \/ \E f \in FileNames : ReadFile(c, f, MaxSize, Bytes(MaxSize), TRUE)
SpecA == Init /\ [][NextA]_vars

\* the number of chunks of a file of MaxSize bytes
NumChunks == GoDiv(MaxSize + ChunkSize - 1, ChunkSize)

\* no upload has begun: nothing is on disk, no handler runs, no chunk was answered
NothingBegun ==
    /\ disk = EmptyMap
    /\ \A r \in Reqs : pc[r] = "idle"
    /\ replies.ok = 0

\* no start request is being served
NoStartRuns == \A r \in Reqs : pc[r] \notin {"start_save", "start_create", "start_truncate"}

\* handler r posts the bytes of chunk idx of the upload (s, f), whose manifest
\* is on disk and has that chunk not completed
PostsMissing(r, s, f, idx) ==
    /\ NoStartRuns
    /\ CanLoad(disk, ConfigPath(s, f))
    /\ idx \in DOMAIN disk[ConfigPath(s, f)].cfg.chunks
    /\ ~disk[ConfigPath(s, f)].cfg.chunks[idx].completed
    /\ ChunkBegin(r, s, f, idx, Bytes(disk[ConfigPath(s, f)].cfg.chunks[idx].size))

\* the steps of the chunk handler r after the manifest was loaded
ChunkSteps(r) ==
    \/ ChunkWrite(r, TRUE)
    \/ ChunkSave(r, TRUE)
    \/ ChunkRegister(r)
    \/ ChunkRemoveConfig(r)
    \/ ChunkBroadcastBegin(r)
    \/ ChunkBroadcastOps(r)
    \/ ChunkRespond(r)

\* one upload, started once and posted chunk by chunk by one HTTP handler,
\* while connections join at any moment, are drained and leave
NextHub ==
    \/ \E s \in SessionIDs, f \in FileNames :
          NothingBegun /\ StartCheck(1, s, f, MaxSize, NoHash)
    \/ StartSave(1, TRUE)
    \/ StartCreate(1, TRUE)
    \/ StartTruncate(1, TRUE)
    \/ \E s \in SessionIDs, f \in FileNames, idx \in 0..(NumChunks - 1) :
          PostsMissing(1, s, f, idx)
    \/ ChunkSteps(1)
    \/ \E c \in ClientIDs : ConnOps(c)
SpecHub == Init /\ [][NextHub]_vars

\* the chunks of one upload are posted concurrently, each index once: the
\* connections join first, one start follows, then handler r posts index r - 1
\* as soon as the start was answered, while the connections are drained and leave
NextConc ==
    \/ \E c \in ClientIDs :
          \/ \E s \in SessionIDs : NothingBegun /\ Join(c, s, <<>>, {})
          \/ Welcome(c)
          \/ WritePump(c)
          \/ RemoveClient(c)
          \/ CountBroadcast(c)
    \/ \E s \in SessionIDs, f \in FileNames :
          NothingBegun /\ StartCheck(1, s, f, MaxSize, NoHash)
    \/ StartSave(1, TRUE)
    \/ StartCreate(1, TRUE)
    \/ StartTruncate(1, TRUE)
    \/ \E r \in Reqs, s \in SessionIDs, f \in FileNames : PostsMissing(r, s, f, r - 1)
    \/ \E r \in Reqs : ChunkSteps(r)
SpecConc == Init /\ [][NextConc]_vars

\* the bytes a WebSocket "file" message may carry for a declared size of MaxSize
FileData == {Bytes(MaxSize), Bytes(1)}

\* the text that follows the text cur in the conversation: "hi", then "ho"
NextText(cur) == IF cur = "" THEN {"hi"} ELSE IF cur = "hi" THEN {"ho"} ELSE {}

\* WebSocket traffic only: the connections join, are drained and leave; the
\* members send the texts of the conversation in turn, and a file whose backing
\* file is not on disk; no HTTP request is served
NextWs ==
    \E c \in ClientIDs :
       \/ ConnOps(c)
       \/ \E t \in Texts :
             /\ cstate[c] = "open"
             /\ t \in NextText(textContent[csess[c]])
             /\ ReadText(c, t)
       \/ \E f \in FileNames, data \in FileData :
             /\ cstate[c] = "open"
             /\ TempPath(csess[c], f) \notin DOMAIN disk
             /\ ReadFile(c, f, MaxSize, data, TRUE)
SpecWs == Init /\ [][NextWs]_vars

\* after a loss of the in-memory state, handler r posts the bytes of a chunk that
\* the manifest of (s, f) had not completed at the loss, as long as the file is
\* not registered and no manifest on disk says the chunk is completed
PostsLost(r, s, f, idx) ==
    LET cp == ConfigPath(s, f)
    IN /\ CanLoad(lost, cp)
       /\ idx \in DOMAIN lost[cp].cfg.chunks \ CompletedChunks(lost[cp].cfg)
       /\ f \notin DOMAIN receivedFiles[s]
       /\ CanLoad(disk, cp) => idx \notin CompletedChunks(disk[cp].cfg)
       /\ ChunkBegin(r, s, f, idx, Bytes(lost[cp].cfg.chunks[idx].size))

\* one upload by one HTTP handler, started once and posted chunk by chunk; the
\* process is ended and started again once, at any moment; the upload is then
\* resumed with status requests and the chunks that were missing, while the
\* sweep of every 5 minutes runs
NextRestart ==
    \/ \E s \in SessionIDs, f \in FileNames :
          NothingBegun /\ lost = EmptyMap /\ StartCheck(1, s, f, MaxSize, NoHash)
    \/ StartSave(1, TRUE)
    \/ StartCreate(1, TRUE)
    \/ StartTruncate(1, TRUE)
    \/ \E s \in SessionIDs, f \in FileNames, idx \in 0..(NumChunks - 1) :
          lost = EmptyMap /\ PostsMissing(1, s, f, idx)
    \/ \E s \in SessionIDs, f \in FileNames, idx \in 0..(NumChunks - 1) :
          PostsLost(1, s, f, idx)
    \/ ChunkWrite(1, TRUE)
    \/ ChunkSave(1, TRUE)
    \/ ChunkRegister(1)
    \/ ChunkRemoveConfig(1)
    \/ ChunkBroadcastBegin(1)
    \/ ChunkRespond(1)
    \/ StatusOps(1)
    \/ Restart
    \/ cleanupOrphanedFiles
SpecRestart == Init /\ [][NextRestart]_vars

\* one HTTP handler serves any start, chunk and status requests while one
\* connection joins and leaves, the two sweeps of the janitor run, and the
\* process is ended and started again once
NextJanitor ==
    \/ \E r \in {1} :
          \/ StartOps(r, {MaxSize}, {NoHash})
          \/ ChunkOps(r, 0..1)
          \/ ChunkBroadcastOps(r)
          \/ StatusOps(r)
    \/ \E c \in {NumReqs + 1} : ConnOps(c)
    \/ cleanupOrphanedFiles
    \/ cleanupOldFiles
    \/ Restart
SpecJanitor == Init /\ [][NextJanitor]_vars

\* one upload, started once and posted chunk by chunk by one HTTP handler,
\* while the connections join one after the other at any moment and are
\* drained, and the first of them sends the first text of the conversation;
\* the broadcast of the completed upload may reach a connection that is joining
NextReplay ==
    \/ \E s \in SessionIDs, f \in FileNames :
          NothingBegun /\ StartCheck(1, s, f, MaxSize, NoHash)
    \/ StartSave(1, TRUE)
    \/ StartCreate(1, TRUE)
    \/ StartTruncate(1, TRUE)
    \/ \E s \in SessionIDs, f \in FileNames, idx \in 0..(NumChunks - 1) :
          PostsMissing(1, s, f, idx)
    \/ ChunkSteps(1)
    \/ \E c \in ClientIDs :
          \/ \E s \in SessionIDs, order \in Orders(FileNames) \cup {<<>>},
                seen \in SUBSET Reqs, early \in SUBSET Reqs :
                /\ \A b \in ClientIDs : b < c => cstate[b] # "new"
                /\ JoinWith(c, s, order, seen, early)
          \/ Welcome(c)
          \/ WritePump(c)
          \/ /\ c = NumReqs + 1
             /\ cstate[c] = "open"
             /\ textContent[csess[c]] = ""
             /\ ReadText(c, "hi")
SpecReplay == Init /\ [][NextReplay]_vars

\* one HTTP handler serves any start, chunk and status requests, with chunk
\* indices inside and outside the manifest and bodies of every length; the
\* write of the backing file and the save of the manifest may fail
NextErr ==
    \E r \in {1} :
       \/ StartOps(r, {MaxSize}, {NoHash})
       \/ \E s \in SessionIDs, f \in FileNames, idx \in 0..NumChunks, n \in 1..ChunkSize :
             ChunkBegin(r, s, f, idx, Bytes(n))
       \/ \E ok \in BOOLEAN : ChunkWrite(r, ok)
       \/ \E ok \in BOOLEAN : ChunkSave(r, ok)
       \/ ChunkSaveTorn(r)
       \/ ChunkRegister(r)
       \/ ChunkRemoveConfig(r)
       \/ ChunkBroadcastBegin(r)
       \/ ChunkRespond(r)
       \/ StatusOps(r)
SpecErr == Init /\ [][NextErr]_vars

\* the fileHash values of a start request: none, the MD5 of the bytes the
\* chunks carry, and a SHA-256 that those bytes do not have
StartHashes == {NoHash, MD5(Bytes(MaxSize)), SHA256(Bytes(1))}

\* two HTTP handlers serve any start, chunk, status and complete requests for
\* uploads that declare a hash or none
NextHash ==
    \E r \in Reqs :
       \/ StartOps(r, {MaxSize}, StartHashes)
       \/ ChunkOps(r, 0..1)
       \/ StatusOps(r)
       \/ CompleteOps(r)
       \/ CompleteVerify(r)
SpecHash == Init /\ [][NextHash]_vars

\* MaxFileSize, in the bytes of the model: the largest size that a chunked
\* upload of the other specifications declares
MaxFileSize == MaxSize

\* one HTTP handler serves start requests of a size of MaxFileSize and of one
\* byte more, and the chunk and status requests that follow
NextLimit ==
    \E r \in {1} :
       \/ StartOps(r, {MaxFileSize, MaxFileSize + 1}, {NoHash})
       \/ ChunkOps(r, 0..1)
       \/ StatusOps(r)
SpecLimit == Init /\ [][NextLimit]_vars

\* one HTTP handler serves start requests of every positive size an int64
\* holds, and the chunk and status requests that follow
NextSizes ==
    \E r \in {1} :
       \/ StartOps(r, 1..Int64Max, {NoHash})
       \/ ChunkOps(r, 0..1)
       \/ StatusOps(r)
SpecSizes == Init /\ [][NextSizes]_vars

\* two HTTP handlers serve the starts of two uploads, each started once, and
\* then post their missing chunks at the same time; no WebSocket connection
NextTwo ==
    \E r \in Reqs :
       \/ \E s \in SessionIDs, f \in UploadNames :
             /\ ConfigPath(s, f) \notin DOMAIN disk
             /\ f \notin DOMAIN receivedFiles[s]
             /\ \A q \in Reqs : pc[q] \in {"start_save", "start_create", "start_truncate"}
                                => loc[q].f # f
             /\ StartCheck(r, s, f, MaxSize, NoHash)
       \/ StartSave(r, TRUE)
       \/ StartCreate(r, TRUE)
       \/ StartTruncate(r, TRUE)
       \/ \E s \in SessionIDs, f \in UploadNames, idx \in 0..(NumChunks - 1) :
             PostsMissing(r, s, f, idx)
       \/ ChunkWrite(r, TRUE)
       \/ ChunkSave(r, TRUE)
       \/ ChunkRegister(r)
       \/ ChunkRemoveConfig(r)
       \/ ChunkBroadcastBegin(r)
       \/ ChunkRespond(r)
SpecTwo == Init /\ [][NextTwo]_vars

\* one upload by one HTTP handler, an end and a new start of the process, the
\* requests that come back for the upload, and the orphan sweep of the janitor
\* running round by round beside them
NextSweep ==
    \/ \E s \in SessionIDs, f \in FileNames :
          (NothingBegun \/ lost # EmptyMap) /\ StartCheck(1, s, f, MaxSize, NoHash)
    \/ StartSave(1, TRUE)
    \/ StartCreate(1, TRUE)
    \/ StartTruncate(1, TRUE)
    \/ \E s \in SessionIDs, f \in FileNames, idx \in 0..(NumChunks - 1) :
          PostsMissing(1, s, f, idx)
    \/ ChunkWrite(1, TRUE)
    \/ ChunkSave(1, TRUE)
    \/ ChunkRegister(1)
    \/ ChunkRemoveConfig(1)
    \/ ChunkBroadcastBegin(1)
    \/ ChunkRespond(1)
    \/ StatusOps(1)
    \/ Restart
    \/ SweepBegin
    \/ \E p \in sweep : SweepRemove(p)
SpecSweep == Init /\ [][NextSweep]_vars

\* one HTTP handler uploads a file in the session of the longer ID while a
\* connection joins the session of the shorter ID and leaves it
NextPrefix ==
    \/ \E r \in {1} :
          \/ \E s \in LongSessionIDs, f \in FileNames :
                NothingBegun /\ StartCheck(r, s, f, MaxSize, NoHash)
          \/ StartSave(r, TRUE)
          \/ StartCreate(r, TRUE)
          \/ StartTruncate(r, TRUE)
          \/ \E s \in LongSessionIDs, f \in FileNames, idx \in 0..(NumChunks - 1) :
                PostsMissing(r, s, f, idx)
          \/ ChunkWrite(r, TRUE)
          \/ ChunkSave(r, TRUE)
          \/ ChunkRegister(r)
          \/ ChunkRemoveConfig(r)
          \/ ChunkBroadcastBegin(r)
          \/ ChunkRespond(r)
          \/ \E s \in LongSessionIDs, f \in FileNames : Status(r, s, f)
    \/ \E c \in {NumReqs + 1} :
          \/ \E s \in SessionIDs : Join(c, s, <<>>, {})
          \/ Welcome(c)
          \/ WritePump(c)
          \/ RemoveClient(c)
          \/ CountBroadcast(c)
SpecPrefix == Init /\ [][NextPrefix]_vars

Spec == SpecA

\* ================================================================== claims
\* C1: after a chunk POST of an upload returned success, a status request for
\* the same upload that comes next returns success and does not list the index
\* of that chunk among the missing ones (the index that completes the upload
\* included).
C1_StatusAfterChunk ==
    [][(/\ resp.op = "chunk" /\ resp.code = 200
        /\ resp'.op = "status" /\ resp'.s = resp.s /\ resp'.f = resp.f)
       => (/\ resp'.code = 200
           /\ resp.idx \notin SeqToSet(resp'.missing))]_vars

\* C2: no file is registered in receivedFiles before every chunk of its manifest
\* is completed: a registered file whose manifest is on disk has all the chunks
\* of that manifest completed (one half of the claimed equivalence).
C2_RegisteredOnlyWhenAllCompleted ==
    \A s \in SessionIDs, f \in FileNames :
       (f \in DOMAIN receivedFiles[s] /\ CanLoad(disk, ConfigPath(s, f)))
       => AllCompleted(disk[ConfigPath(s, f)].cfg)

\* C3: a chunk POST repeated right after the same POST succeeded is a no-op
\* success: it answers 200 and leaves the manifest, the backing file and
\* receivedFiles as they were (the last missing index included).
C3_ChunkTwice ==
    [][\A r \in Reqs :
          (/\ resp.op = "chunk" /\ resp.code = 200
           /\ ChunkBegin(r, resp.s, resp.f, resp.idx, Bytes(resp.len)))
          => (/\ resp'.op = "chunk" /\ resp'.code = 200
              /\ disk' = disk
              /\ receivedFiles' = receivedFiles)]_vars

\* C4: a complete request for a file that is in receivedFiles is answered 200
\* with the size of the registered file, whether or not the manifest exists.
C4_CompleteOnRegistered ==
    [][(/\ resp'.op = "complete"
        /\ resp'.f \in DOMAIN receivedFiles[resp'.s])
       => (/\ resp'.code = 200
           /\ resp'.size = receivedFiles[resp'.s][resp'.f].size)]_vars

\* C5: a start request that passes the binding (fileSize is not zero) for a
\* name that is in the session's receivedFiles is answered at once with the
\* already-complete response (200, completed, no missing chunk), leaves every
\* file on disk as it is (no manifest, no create, no truncate) and goes no
\* further: no handler enters the manifest-building part for a registered name.
C5_StartOnRegistered ==
    [][/\ (/\ resp'.op = "start" /\ resp'.code # 400
           /\ pc[resp'.r] = "idle"
           /\ resp'.f \in DOMAIN receivedFiles[resp'.s])
          => (/\ resp'.code = 200
              /\ resp'.completed
              /\ resp'.missing = <<>>
              /\ resp'.size = receivedFiles[resp'.s][resp'.f].size
              /\ disk' = disk)
       /\ \A r \in Reqs :
             (pc[r] = "idle" /\ pc'[r] = "start_save")
             => loc'[r].f \notin DOMAIN receivedFiles[loc'[r].s]]_vars

\* a start was just answered "already complete" for a registered file while
\* no manifest of it is on disk
C5_Witness ==
    /\ resp.op = "start" /\ resp.code = 200 /\ resp.completed
    /\ resp.f \in DOMAIN receivedFiles[resp.s]
    /\ ConfigPath(resp.s, resp.f) \notin DOMAIN disk
    /\ TempPath(resp.s, resp.f) \in DOMAIN disk

\* C6: a step of a start handler that finds a manifest with completed chunks
\* keeps the manifest's completed flags and the bytes of the backing file, and
\* its answer lists as missing exactly the chunks that are not completed.
C6_StartKeepsProgress ==
    [][\A r \in Reqs :
          LET cp == ConfigPath(loc[r].s, loc[r].f)
              tp == TempPath(loc[r].s, loc[r].f)
          IN (/\ pc[r] \in {"start_save", "start_create", "start_truncate"}
              /\ pc'[r] # pc[r]
              /\ CanLoad(disk, cp)
              /\ CompletedChunks(disk[cp].cfg) # {})
             => (/\ CanLoad(disk', cp)
                 /\ CompletedChunks(disk'[cp].cfg) = CompletedChunks(disk[cp].cfg)
                 /\ tp \in DOMAIN disk => (tp \in DOMAIN disk' /\ disk'[tp] = disk[tp])
                 /\ (resp'.op = "start" /\ resp'.code = 200)
                       => resp'.missing = MissingChunks(disk'[cp].cfg))]_vars

\* C7: when the chunks of one upload were posted concurrently, each index once,
\* and every post was answered 200, exactly one answer carried completed=true,
\* and every connection that has been in the session since before the start
\* got the "file" frame of the completion exactly once.
C7_OneCompletion ==
    replies.ok = NumChunks
    => /\ replies.done = 1
       /\ \A s \in SessionIDs : \A c \in sClients[s] :
             /\ DOMAIN receivedFiles[s] # {}
             /\ \A f \in DOMAIN receivedFiles[s] :
                   fileFrames[c][f].live = 1 /\ fileFrames[c][f].replay = 0

\* every chunk was answered 200 and every connection is still in the session
C7_Witness ==
    /\ replies.ok = NumChunks
    /\ replies.done = 1
    /\ \E s \in SessionIDs :
          /\ sClients[s] = ClientIDs
          /\ \A c \in ClientIDs : \E f \in FileNames : fileFrames[c][f].live = 1

\* C8: a connection that is in the session gets the "file" frame of a file at
\* most once, and exactly once when the file is registered and no handler is
\* at work: by the replay of its join or by the broadcast, never by both.
C8_FileFrameOnce ==
    \A s \in SessionIDs : \A c \in sClients[s] : \A f \in FileNames :
       ~closed[c]
       => /\ FramesFor(c, f) <= 1
          /\ (f \in DOMAIN receivedFiles[s] /\ \A r \in Reqs : pc[r] = "idle")
                => FramesFor(c, f) = 1

\* C9: when a chunk POST is answered completed=true, the file has been put in
\* ReceivedFiles, the broadcast has ended, and each connection that was in the
\* session when the file was registered and still is has got the "file" frame
\* of the broadcast on its queue, or has had its queue closed.
C9_BroadcastBeforeResponse ==
    [][(/\ resp'.op = "chunk" /\ resp'.code = 200 /\ resp'.completed)
       => LET r == resp'.r
              s == resp'.s
              f == resp'.f
          IN /\ <<s, f>> \in everRegistered
             /\ loc[r].iter = {}
             /\ \A c \in loc[r].to \cap sClients[s] :
                   fileFrames[c][f].live >= 1 \/ closed[c]]_vars

\* a chunk POST was just answered completed=true while every connection is in
\* the session and got the frame from the broadcast
C9_Witness ==
    /\ resp.op = "chunk" /\ resp.code = 200 /\ resp.completed
    /\ sClients[resp.s] = ClientIDs
    /\ \A c \in ClientIDs :
          /\ fileFrames[c][resp.f].live = 1
          /\ fileFrames[c][resp.f].replay = 0

\* C10: once the last connection of a session has left and its cleanup has run,
\* and the requests that were being served have been answered (none arrived
\* since), the temp directory holds no file whose name begins with the
\* session's ID.
C10_NoFilesAfterTeardown ==
    \A s \in tornDown :
       (\A r \in Reqs : pc[r] = "idle")
       => \A p \in DOMAIN disk : ~HasSessionPrefix(p, s)

\* C11: whenever the client set of a session goes from non-empty to empty, by a
\* disconnect or by a broadcast that evicts the last client, the step leaves
\* receivingFiles and receivedFiles of the session empty and no backing file or
\* manifest of its files on disk.
C11_CleanupWhenEmptied ==
    [][\A s \in SessionIDs :
          (sClients[s] # {} /\ sClients'[s] = {})
          => /\ receivingFiles'[s] = EmptyMap
             /\ receivedFiles'[s] = EmptyMap
             /\ \A f \in DOMAIN receivedFiles[s] \cup DOMAIN receivingFiles[s] :
                   /\ TempPath(s, f) \notin DOMAIN disk'
                   /\ ConfigPath(s, f) \notin DOMAIN disk']_vars

\* C12: a step that changes the membership of a session (a join or an eviction;
\* for a disconnect, the count broadcast that follows the removal) leaves, on
\* the queue of every remaining member, a "clients" frame as the last frame,
\* whose number is the size of the client set after the step.
C12_CountMatchesMembers ==
    [][\A s \in SessionIDs :
          LET changed == sClients'[s] # sClients[s]
              deferred == \E c \in ClientIDs :
                             csess[c] = s /\ cstate[c] = "open" /\ cstate'[c] = "removed"
              counted == \E c \in ClientIDs :
                            csess[c] = s /\ cstate[c] = "removed" /\ cstate'[c] = "gone"
          IN ((changed /\ ~deferred) \/ counted)
             => \A c \in sClients'[s] :
                   /\ queue'[c] # <<>>
                   /\ queue'[c][Len(queue'[c])] = CountFrame(Cardinality(sClients'[s]))]_vars

\* C13: every file registered in receivedFiles has a backing file on disk whose
\* length is the registered size, and the backing file of an upload that has a
\* manifest is never longer than the size the manifest declares.
C13_BackingFileHasSize ==
    \A s \in SessionIDs :
       /\ \A f \in DOMAIN receivedFiles[s] :
             LET p == receivedFiles[s][f].tempFilePath
             IN /\ p \in DOMAIN disk
                /\ Len(disk[p].bytes) = receivedFiles[s][f].size
       /\ \A f \in FileNames :
             (CanLoad(disk, ConfigPath(s, f)) /\ TempPath(s, f) \in DOMAIN disk)
             => Len(disk[TempPath(s, f)].bytes) <= disk[ConfigPath(s, f)].cfg.fileSize

\* C14: in every state, each chunk that the manifest of an upload marks completed
\* has the bytes uploaded for it (those its hash was taken of) at
\* [offset, offset+size) of the backing file.
C14_CompletedChunkStored ==
    \A s \in SessionIDs, f \in FileNames :
       CanLoad(disk, ConfigPath(s, f))
       => LET cfg == disk[ConfigPath(s, f)].cfg
              tp == cfg.tempFilePath
          IN \A i \in CompletedChunks(cfg) :
                LET off == cfg.chunks[i].offset
                    n == cfg.chunks[i].size
                IN /\ tp \in DOMAIN disk
                   /\ Len(disk[tp].bytes) >= off + n
                   /\ MD5(SubSeq(disk[tp].bytes, off + 1, off + n)) = cfg.chunks[i].hash

\* C15: after the in-memory state was lost with some chunks of an upload
\* completed in its manifest, and until the file is registered, a status request
\* for the upload succeeds and lists none of those chunks as missing, and a post
\* of a chunk that was missing succeeds; when it is answered completed=true the
\* file is in receivedFiles and the manifest is gone.
C15_ResumeAfterLoss ==
    [][\A s \in SessionIDs, f \in FileNames :
          LET cp == ConfigPath(s, f)
          IN (/\ CanLoad(lost, cp)
              /\ CompletedChunks(lost[cp].cfg) # {}
              /\ lost' = lost
              /\ resp'.s = s /\ resp'.f = f
              /\ f \notin DOMAIN receivedFiles[s])
             => /\ resp'.op = "status"
                   => /\ resp'.code = 200
                      /\ CompletedChunks(lost[cp].cfg) \cap SeqToSet(resp'.missing) = {}
                /\ resp'.op = "chunk"
                   => /\ resp'.code = 200
                      /\ resp'.completed
                         => /\ f \in DOMAIN receivedFiles'[s]
                            /\ cp \notin DOMAIN disk']_vars

\* C16: a step that takes away the manifest of an upload that is OPEN (manifest
\* on disk, some chunk not completed), or that takes a chunk out of the chunks
\* the manifest marks completed, is the teardown of the session: the step in
\* which its last client is removed.
C16_OpenLeftOnlyByTeardown ==
    [][\A s \in SessionIDs, f \in FileNames :
          LET cp == ConfigPath(s, f)
          IN (/\ CanLoad(disk, cp)
              /\ ~AllCompleted(disk[cp].cfg)
              /\ \/ ~CanLoad(disk', cp)
                 \/ ~(CompletedChunks(disk[cp].cfg) \subseteq CompletedChunks(disk'[cp].cfg)))
             => (sClients[s] # {} /\ sClients'[s] = {} /\ s \in tornDown')]_vars

\* C17 as stated: a text message makes its content the textContent of the
\* session and leaves the frame as the last frame on the queue of every client
\* that was in the session, the sender included.
C17_TextToEveryMember ==
    [][\A s \in SessionIDs :
          textContent'[s] # textContent[s]
          => \A c \in sClients[s] :
                /\ queue'[c] # <<>>
                /\ queue'[c][Len(queue'[c])] = TextFrame(textContent'[s])]_vars

\* C17, amended: a text message makes its content the textContent of the
\* session; every client of the session whose queue has room gets the frame
\* appended to its queue and stays a member, the sender included; a client whose
\* queue is full gets nothing: its channel is closed and it leaves the client set.
C17_TextToMembersWithRoom ==
    [][\A s \in SessionIDs :
          textContent'[s] # textContent[s]
          => \A c \in sClients[s] :
                IF Len(queue[c]) < QueueCap
                THEN /\ queue'[c] = Append(queue[c], TextFrame(textContent'[s]))
                     /\ c \in sClients'[s]
                ELSE /\ queue'[c] = queue[c]
                     /\ closed'[c]
                     /\ c \notin sClients'[s]]_vars

\* both connections are members and the second text of the conversation, sent
\* after both joined, is the last frame on the queue of each
C17_Witness ==
    \E s \in SessionIDs :
       /\ sClients[s] = ClientIDs
       /\ textContent[s] = "ho"
       /\ \A c \in ClientIDs :
             /\ queue[c] # <<>>
             /\ queue[c][Len(queue[c])] = TextFrame("ho")

\* C18: the step in which a client joins a session leaves, at the head of the
\* client's queue and before every other frame, the replay: one text frame with
\* the textContent of the session if it is not empty and none if it is, then one
\* file frame for each entry of receivedFiles.
C18_ReplayFirst ==
    [][\A c \in ClientIDs :
          (cstate[c] = "new" /\ cstate'[c] # "new")
          => LET s == csess'[c]
             IN \E order \in Orders(DOMAIN receivedFiles[s]) :
                   /\ Len(queue'[c]) >= Len(Replay(s, order))
                   /\ SubSeq(queue'[c], 1, Len(Replay(s, order))) = Replay(s, order)]_vars

\* C19: a step that answers a chunk POST with an error leaves the manifest of
\* the upload readable with the same chunks marked completed, if it was
\* readable, and leaves receivedFiles as it was.
C19_ErrorKeepsManifest ==
    [][(resp'.op = "chunk" /\ resp'.code # 200)
       => LET cp == ConfigPath(resp'.s, resp'.f)
          IN /\ receivedFiles' = receivedFiles
             /\ CanLoad(disk, cp)
                => /\ CanLoad(disk', cp)
                   /\ CompletedChunks(disk'[cp].cfg) = CompletedChunks(disk[cp].cfg)]_vars

\* C20: a complete call loads the manifest as it is on disk; it goes on to
\* register the file only when no chunk of the manifest it loaded is incomplete
\* and, for a non-empty fileHash, the digest of the backing file at the moment of
\* the verification equals fileHash; nothing but a call that got that far
\* registers on behalf of complete; a complete call that answers with an error
\* answers 404 for an unreadable manifest or 400, with the count of the
\* incomplete chunks if there are any, and changes neither receivedFiles nor
\* the disk.
C20_CompleteRegistersOnlyVerified ==
    [][LET Incomplete(cfg) == {i \in DOMAIN cfg.chunks : ~cfg.chunks[i].completed}
           Matches(cfg) == /\ cfg.tempFilePath \in DOMAIN disk
                           /\ \/ MD5(disk[cfg.tempFilePath].bytes) = cfg.fileHash
                              \/ SHA256(disk[cfg.tempFilePath].bytes) = cfg.fileHash
       IN /\ \A r \in Reqs :
               /\ (pc[r] = "idle" /\ pc'[r] = "complete_check")
                  => /\ CanLoad(disk, ConfigPath(loc'[r].s, loc'[r].f))
                     /\ loc'[r].cfg = disk[ConfigPath(loc'[r].s, loc'[r].f)].cfg
               /\ (pc[r] # "complete_register" /\ pc'[r] = "complete_register")
                  => /\ Incomplete(loc'[r].cfg) = {}
                     /\ loc'[r].cfg.fileHash # NoHash => Matches(loc'[r].cfg)
          /\ (resp'.op = "complete" /\ receivedFiles' # receivedFiles)
             => /\ resp'.code = 200
                /\ pc[resp'.r] = "complete_register"
                /\ receivedFiles'[resp'.s][resp'.f].size = loc[resp'.r].cfg.fileSize
          /\ (resp'.op = "complete" /\ resp'.code # 200)
             => /\ receivedFiles' = receivedFiles
                /\ disk' = disk
                /\ \/ resp'.code = 404 /\ ~CanLoad(disk, ConfigPath(resp'.s, resp'.f))
                   \/ /\ resp'.code = 400
                      /\ \/ /\ pc[resp'.r] = "complete_check"
                            /\ resp'.incomplete = Cardinality(Incomplete(loc[resp'.r].cfg))
                            /\ resp'.incomplete > 0
                         \/ /\ pc[resp'.r] = "complete_verify"
                            /\ ~Matches(loc[resp'.r].cfg)]_vars

\* a complete call has just registered a file whose manifest carries a hash
C20_Witness ==
    /\ resp.op = "complete"
    /\ resp.code = 200
    /\ (<<resp.s, resp.f>> \in everRegistered)
    /\ \E r \in Reqs : /\ pc[r] = "chunk_register"
                        /\ loc[r].s = resp.s /\ loc[r].f = resp.f
                        /\ loc[r].cfg.fileHash # NoHash
    /\ resp.f \in DOMAIN receivedFiles[resp.s]

\* C21: start creates a manifest or a backing file only for a fileSize from 1
\* to MaxFileSize: no manifest on disk declares a larger size or a size that is
\* not positive, and no backing file is longer than MaxFileSize.
C21_OversizeRejected ==
    \A p \in DOMAIN disk :
        /\ disk[p].kind = "json"
           => disk[p].cfg.fileSize >= 1 /\ disk[p].cfg.fileSize <= MaxFileSize
        /\ disk[p].kind = "data" => Len(disk[p].bytes) <= MaxFileSize

\* C22: every manifest on disk of a fileSize of at least 1 has ceil(fileSize /
\* chunkSize) chunks, indexed from 0, chunk i at offset i * chunkSize, every
\* chunk but the last of chunkSize bytes and the last of the remaining 1 to
\* chunkSize bytes, so that the chunks are disjoint and cover [0, fileSize); and
\* a start that answers 200 for a new upload lists every index as missing.
C22_ManifestLayout ==
    \A s \in SessionIDs, f \in FileNames :
        LET cp == ConfigPath(s, f)
            cfg == disk[cp].cfg
            n == cfg.fileSize
            total == CHOOSE k \in 0..n : (k - 1) * ChunkSize < n /\ n <= k * ChunkSize
            covered(i) == (cfg.chunks[i].offset)..(cfg.chunks[i].offset + cfg.chunks[i].size - 1)
        IN (cp \in DOMAIN disk /\ disk[cp].kind = "json" /\ n >= 1)
           => /\ cfg.totalChunks = total
              /\ DOMAIN cfg.chunks = 0..(total - 1)
              /\ \A i \in DOMAIN cfg.chunks :
                    /\ cfg.chunks[i].offset = i * ChunkSize
                    /\ cfg.chunks[i].size = IF i = total - 1 THEN n - i * ChunkSize ELSE ChunkSize
                    /\ cfg.chunks[i].size >= 1 /\ cfg.chunks[i].size <= ChunkSize
              /\ \A i, j \in DOMAIN cfg.chunks : i # j => covered(i) \cap covered(j) = {}
              /\ UNION {covered(i) : i \in DOMAIN cfg.chunks} = 0..(n - 1)
              /\ (resp.op = "start" /\ resp.s = s /\ resp.f = f /\ ~resp.completed)
                 => /\ resp.code = 200
                    /\ resp.totalChunks = total
                    /\ resp.missing = [i \in 1..total |-> i - 1]

\* C23: a session in the registry has a client, unless a handler is at work or
\* a connection is between its removal and the end of its reader: when every
\* handler is idle and no connection is leaving, no session of the registry
\* is without clients.
C23_NoEmptySessionAtRest ==
    (/\ ~crashed
     /\ \A r \in Reqs : pc[r] = "idle"
     /\ \A c \in ClientIDs : cstate[c] # "removed")
    => \A s \in sessions : sClients[s] # {}

\* C24: the clients set of a session is never written while a handler that does
\* not hold the session's lock ranges over it: a step that changes the set is
\* taken while no handler is inside its range statement, except that the one
\* ranging handler deletes the entry its own round produced.
C24_ClientsUnderLock ==
    [][\A s \in SessionIDs :
          sClients'[s] # sClients[s]
          => \A r \in Iterating(s) : pc[r] = "chunk_evict" /\ pc'[r] = "chunk_iter"]_vars

\* C25: no handler takes the registry lock or a session lock while it holds the
\* lock of an upload's path: the steps that call GetOrCreateSession and lock
\* the session (the registration by a chunk handler, the look-up and the
\* registration by complete) are taken by a handler that holds no path lock.
C25_LockOrder ==
    [][\A r \in Reqs :
          (pc[r] \in {"chunk_register", "complete_check", "complete_register"} /\ pc'[r] # pc[r])
          => ~(/\ pc[r] \in {"chunk_write", "chunk_save", "chunk_register", "chunk_rmcfg",
                            "chunk_bcast", "chunk_iter", "chunk_evict", "chunk_reply"}
               /\ ConfigPath(loc[r].s, loc[r].f) \in lockHeld)]_vars

\* C26: between the replay of a joining client and its connected frame no other
\* frame is placed on the client's queue: while the connected frame of a joined
\* client is still to be sent, the only step that enqueues on its queue is the
\* one that sends the connected frame.
C26_JoinUninterrupted ==
    [][\A c \in ClientIDs :
          (/\ cstate[c] = "open"
           /\ welcome[c]
           /\ Len(queue'[c]) > Len(queue[c]))
          => /\ ~welcome'[c]
             /\ queue'[c] = Append(queue[c], SystemFrame)]_vars

C28_OneHandlerPerManifest ==
    [][LET Between(r) == pc'[r] \in {"chunk_write", "chunk_save"}
           Holds(r) == pc'[r] \in {"chunk_write", "chunk_save", "chunk_register", "chunk_rmcfg",
                                   "chunk_bcast", "chunk_iter", "chunk_evict", "chunk_reply"}
       IN /\ \A r1, r2 \in Reqs :
                (r1 # r2 /\ Between(r1) /\ Between(r2))
                => ConfigPath(loc'[r1].s, loc'[r1].f) # ConfigPath(loc'[r2].s, loc'[r2].f)
          /\ \A cp \in DOMAIN disk :
                (CanLoad(disk, cp) /\ CanLoad(disk', cp))
                => CompletedChunks(disk[cp].cfg) \subseteq CompletedChunks(disk'[cp].cfg)
          /\ lockHeld' = {ConfigPath(loc'[r].s, loc'[r].f) : r \in {q \in Reqs : Holds(q)}}]_vars

\* two handlers are between load and save at the same time, one for each upload
C28_Witness ==
    \E r1, r2 \in Reqs :
        /\ pc[r1] = "chunk_save" /\ pc[r2] = "chunk_save"
        /\ loc[r1].f # loc[r2].f
        /\ lockHeld = {ConfigPath(loc[r1].s, loc[r1].f), ConfigPath(loc[r2].s, loc[r2].f)}

\* C29: while an HTTP handler is inside the section of start or chunk that
\* creates, sizes or writes the backing file of an upload, no other writer
\* changes the bytes of that file: a step that leaves the handler where it is
\* leaves the file, if it still exists, as it was.
C29_OneWriterPerFile ==
    [][\A r \in Reqs :
          LET p == loc[r].cfg.tempFilePath
          IN (/\ pc[r] \in {"start_create", "start_truncate", "chunk_write", "chunk_save"}
              /\ pc'[r] = pc[r]
              /\ p \in DOMAIN disk
              /\ p \in DOMAIN disk')
             => disk'[p] = disk[p]]_vars

\* C30: a round of the orphan sweep unlinks a file only if the file's name
\* begins with a session ID and, at the moment of the unlink, no session of
\* that ID is in the registry.
C30_SweepSparesLiveSessions ==
    [][\A p \in DOMAIN disk :
          (sweep' # sweep /\ p \notin DOMAIN disk')
          => /\ extractSessionIDFromFileName(p) # <<>>
             /\ extractSessionIDFromFileName(p) \notin sessions]_vars

\* C31: the teardown of a session leaves every other session alone: the step in
\* which the last client of session s leaves keeps every backing file and every
\* manifest named after another session on disk with its content, and keeps the
\* files, the text and the clients of every other session.
C31_TeardownTouchesOnlyItsSession ==
    [][\A s \in AnySessionIDs :
          (s \in tornDown' /\ s \notin tornDown)
          => \A s2 \in AnySessionIDs \ {s} :
                /\ \A f \in FileNames : \A p \in {TempPath(s2, f), ConfigPath(s2, f)} :
                      p \in DOMAIN disk => p \in DOMAIN disk' /\ disk'[p] = disk[p]
                /\ receivedFiles'[s2] = receivedFiles[s2]
                /\ receivingFiles'[s2] = receivingFiles[s2]
                /\ textContent'[s2] = textContent[s2]
                /\ sClients'[s2] = sClients[s2]]_vars

\* ---------------------------------------------------------------- a reader whose file cannot be stored
\* one connection whose single-message uploads may fail at os.Create or Write
NextWsErr ==
    \E c \in {NumReqs + 1} :
       \/ ConnOps(c)
       \/ \E t \in Texts :
             /\ cstate[c] = "open"
             /\ t \in NextText(textContent[csess[c]])
             /\ ReadText(c, t)
       \/ \E f \in FileNames, data \in FileData, ok \in BOOLEAN :
             /\ cstate[c] = "open"
             /\ TempPath(csess[c], f) \notin DOMAIN disk
             /\ ReadFile(c, f, MaxSize, data, ok)
SpecWsErr == Init /\ [][NextWsErr]_vars

\* C32: handling one incoming message releases the session lock exactly once on
\* every path, the failing ones included: no step of a reader ends in the fatal
\* error of unlocking a mutex that is not locked
C32_ReaderUnlocksOnce ==
    [][\A c \in ClientIDs : cstate[c] = "open" /\ cstate'[c] = "open" => (crashed' => crashed)]_vars

\* C33: no frame is sent on a client queue that has been closed: the connected
\* frame that a join sends after releasing the session lock never finds the queue
\* of its client closed by a broadcast that evicted the client meanwhile
C33_NoSendOnClosedQueue ==
    [][\A c \in ClientIDs : (welcome[c] /\ ~welcome'[c]) => ~closed[c]]_vars

\* ---------------------------------------------------------------- a replay longer than the queue
\* the first connection sends the first text and two files, the second one joins
\* afterwards and is sent the replay of all of them; no HTTP request is served
NextFull ==
    \E c \in ClientIDs :
       \/ \E s \in SessionIDs : \E order \in Orders(DOMAIN receivedFiles[s]) :
             /\ \A b \in ClientIDs : b < c => cstate[b] = "open" /\ ~welcome[b]
             /\ Join(c, s, order, {})
       \/ Welcome(c)
       \/ WritePump(c)
       \/ RemoveClient(c)
       \/ CountBroadcast(c)
       \/ /\ cstate[c] = "open"
          /\ textContent[csess[c]] = ""
          /\ ReadText(c, "hi")
       \/ \E f \in UploadNames :
             /\ cstate[c] = "open"
             /\ TempPath(csess[c], f) \notin DOMAIN disk
             /\ ReadFile(c, f, MaxSize, Bytes(MaxSize), TRUE)
SpecFull == Init /\ [][NextFull]_vars

\* C34: a join always ends and releases the session lock, whatever the number of
\* replay frames: no joining handler is ever left waiting on a send of its replay
\* with session.mu held
C34_JoinReleasesLock ==
    \A c \in ClientIDs : cstate[c] = "blocked" => ~sessLocked[csess[c]]

\* ---------------------------------------------------------------- a file sent in chunk messages
\* the chunk counts a sender may declare: none, or one chunk per byte
ChunkTotals == {0, MaxSize}

\* one connection sends a file of MaxSize bytes in "file_chunk" messages of one
\* byte each, with any index in any order and as often as it likes; a write may
\* fail; no HTTP request is served
NextChunks ==
    \E c \in {NumReqs + 1} :
       \/ ConnOps(c)
       \/ \E f \in FileNames, total \in ChunkTotals, idx \in 0..(MaxSize - 1), ok \in BOOLEAN :
             /\ cstate[c] = "open"
             /\ f \notin DOMAIN receivedFiles[csess[c]]
             /\ ReadFileChunk(c, f, MaxSize, total, idx, Bytes(1), ok)
SpecChunks == Init /\ [][NextChunks]_vars

\* C35: a "file_chunk" message registers the file only when every chunk index
\* has been received: the registration happens when the counter reaches the
\* expected number n of chunks, so of the indices 0..n-1 the messages handled
\* before the registering one have left at most one missing, the one it carries
C35_RegisteredOnlyWhenAllChunks ==
    [][\A s \in SessionIDs, f \in FileNames :
          (f \in DOMAIN receivedFiles'[s] /\ f \in DOMAIN receivingFiles[s])
          => LET rf == receivingFiles[s][f]
                 n == rf.receivedChunks + 1
             IN Cardinality((0..(n - 1)) \ DOMAIN rf.chunks) <= 1]_vars

\* C36: an upload whose start declared a fileHash is put in receivedFiles by the
\* chunk that finishes it only when the digest of its backing file equals the
\* declared fileHash
C36_ChunkRegistersOnlyVerified ==
    [][\A r \in Reqs :
          (/\ pc[r] = "chunk_register"
           /\ loc[r].f \in DOMAIN receivedFiles'[loc[r].s]
           /\ receivedFiles' # receivedFiles
           /\ loc[r].cfg.fileHash # NoHash)
          => /\ loc[r].cfg.tempFilePath \in DOMAIN disk
             /\ \/ MD5(disk[loc[r].cfg.tempFilePath].bytes) = loc[r].cfg.fileHash
                \/ SHA256(disk[loc[r].cfg.tempFilePath].bytes) = loc[r].cfg.fileHash]_vars

\* ---------------------------------------------------------------- a file name ending in .json
\* the names of two uploads of one session, the second the first plus ".json"
JsonNames == FileNames \cup {f \o <<".json">> : f \in FileNames}

\* two HTTP handlers serve the starts of the two uploads, each started once in
\* any order, and post their missing chunks; no WebSocket connection
NextNames ==
    \E r \in Reqs :
       \/ \E s \in SessionIDs, f \in JsonNames :
             /\ \A q \in Reqs : pc[q] = "idle"
             /\ <<s, f>> \notin everRegistered
             /\ \A p \in DOMAIN disk : disk[p].kind = "json" => disk[p].cfg.fileName # f
             /\ StartCheck(r, s, f, MaxSize, NoHash)
       \/ StartSave(r, TRUE)
       \/ StartCreate(r, TRUE)
       \/ StartTruncate(r, TRUE)
       \/ \E s \in SessionIDs, f \in JsonNames, idx \in 0..(NumChunks - 1) :
             PostsMissing(r, s, f, idx)
       \/ ChunkWrite(r, TRUE)
       \/ ChunkSave(r, TRUE)
       \/ ChunkRegister(r)
       \/ ChunkRemoveConfig(r)
       \/ ChunkBroadcastBegin(r)
       \/ ChunkRespond(r)
SpecNames == Init /\ [][NextNames]_vars

\* C37: distinct artifacts never share a path of the temp directory: the path of
\* a manifest on disk is not the backing-file path that a manifest on disk
\* names, and no path serves as manifest lock (RWMutex) and as backing-file lock
\* (Mutex) at once
C37_PathsDistinct ==
    LET Manifests == {p \in DOMAIN disk : disk[p].kind = "json"}
    IN /\ \A p, q \in Manifests : disk[q].cfg.tempFilePath # p
       /\ \A q \in Manifests :
             /\ disk[q].cfg.tempFilePath \in DOMAIN fileLocks
                => fileLocks[disk[q].cfg.tempFilePath] = "Mutex"
             /\ q \in DOMAIN fileLocks => fileLocks[q] = "RWMutex"

\* ---------------------------------------------------------------- a day without a write
\* one connection sends texts and a file and stays; the sweep of every 24 hours
\* runs; no HTTP request is served
NextOld ==
    \/ \E c \in {NumReqs + 1} :
          \/ ConnOps(c)
          \/ \E t \in Texts :
                /\ cstate[c] = "open"
                /\ t \in NextText(textContent[csess[c]])
                /\ ReadText(c, t)
          \/ \E f \in FileNames :
                /\ cstate[c] = "open"
                /\ TempPath(csess[c], f) \notin DOMAIN disk
                /\ ReadFile(c, f, MaxSize, Bytes(MaxSize), TRUE)
    \/ cleanupOldFiles
SpecOld == Init /\ [][NextOld]_vars

\* C38: for every session with a connected client, every entry of receivedFiles
\* refers to a backing file that is on disk
C38_RegisteredFileOnDisk ==
    \A s \in SessionIDs :
        sClients[s] # {}
        => \A f \in DOMAIN receivedFiles[s] : receivedFiles[s][f].tempFilePath \in DOMAIN disk

\* C39: text convergence.  Texts are set and sent under the session's lock, so
\* while the process runs, after every step and for every member of a session:
\* the last text frame on the member's queue, if there is one, carries the
\* session's textContent, and a step that changes textContent leaves the frame
\* of the new text as the last frame on the queue of every member that remains
C39_TextConvergence ==
    [][~crashed'
       => \A s \in SessionIDs : \A c \in sClients'[s] :
             LET q == queue'[c]
                 T == {i \in DOMAIN q : q[i].type = "text"}
             IN /\ T # {}
                   => q[CHOOSE i \in T : \A j \in T : j <= i] = TextFrame(textContent'[s])
                /\ textContent'[s] # textContent[s]
                   => /\ q # <<>>
                      /\ q[Len(q)] = TextFrame(textContent'[s])]_vars

\* both connections are members after the second text of the conversation: the
\* one that was a member when it was sent, and the one that joined afterwards
\* and has the text from its replay, its connected frame still to be sent
C39_Witness ==
    \E s \in SessionIDs : \E c1, c2 \in ClientIDs :
       /\ c1 # c2
       /\ sClients[s] = {c1, c2}
       /\ textContent[s] = "ho"
       /\ ~welcome[c1]
       /\ queue[c1] = <<TextFrame("ho"), CountFrame(2)>>
       /\ welcome[c2]
       /\ queue[c2] = <<TextFrame("ho"), CountFrame(2)>>

\* C40: after the teardown of a session, which its last client's departure ran,
\* the session is like a new one: a client that joins it next gets neither a
\* text frame nor a file frame of a replay
C40_FreshAfterTeardown ==
    [][\A c \in ClientIDs : \A s \in SessionIDs :
          (/\ cstate[c] = "new"
           /\ cstate'[c] # "new"
           /\ csess'[c] = s
           /\ s \in tornDown)
          => \A i \in DOMAIN queue'[c] : queue'[c][i].type \notin {"text", "file"}]_vars
====
